---- MODULE Spec2Model ----
(***************************************************************************)
(* Model of the HX711 load-cell ADC driver (src/hx711.py).                 *)
(*                                                                         *)
(* The driver object is the record hx (one field per attribute of self).   *)
(* The chip on the other side of the two lines is the record chip: it      *)
(* shifts one bit of the current conversion out per clock pulse and takes  *)
(* the number of pulses beyond 24 as the gain/channel selection of the     *)
(* next conversion.                                                        *)
(*                                                                         *)
(* Sequential use is modelled call by call: every method is an operator    *)
(* on a "world" record (driver, chip, clock line, pending chip             *)
(* conversions, return value, raised error) and every action applies one   *)
(* public method as a whole.                                               *)
(***************************************************************************)
EXTENDS Integers, Sequences, FiniteSets, TLC

VARIABLES
    hx,       \* the driver object: one field per attribute of self
    chip,     \* the HX711 at the other end of the lines
    pd_sck,   \* level of the clock line
    call,     \* the public call just completed: method, arguments, outcome
    setting,  \* gain passed to the last set_gain that returned, while in force
    thread,   \* per thread: where it is in the method it is executing, its locals
    line,     \* the last access to PD_SCK or DOUT made by a thread, and who made it
    emu       \* the simulated driver object, and the outcome of the last call on it

vars == <<hx, chip, pd_sck, call, setting, thread, line, emu>>

(***************************************************************************)
(* Bounds                                                                  *)
(***************************************************************************)
\* largest sample count for which every sequence of conversions is tried
MaxTimes == 6

\* a larger sample count, tried with the conversions drawn from two words
LongTimes == 10

\* number of threads that call into the driver concurrently
NThreads == 2

\* calls each thread makes when the threads run a mix of operations
MaxCalls == 1

(***************************************************************************)
(* Sequencing: Then(e, F) evaluates e once and hands its value to F, as a  *)
(* statement hands its result to the statements after it                   *)
(***************************************************************************)
Then(e, F(_)) == CHOOSE r \in {F(v) : v \in {e}} : TRUE

(***************************************************************************)
(* Python values                                                           *)
(***************************************************************************)
None == [type |-> "none"]
PyStr(s) == [type |-> "str", v |-> s]
\* an int, kept by its decimal digits
PyInt(digits) == [type |-> "int", v |-> digits]
\* a list
PyList(l) == [type |-> "list", v |-> l]

\* the literals 'MSB' and 'LSB', as sequences of characters
MSB == PyStr(<<"M", "S", "B">>)
LSB == PyStr(<<"L", "S", "B">>)

UpperChar(c) ==
    CASE c = "l" -> "L"
      [] c = "m" -> "M"
      [] c = "s" -> "S"
      [] c = "b" -> "B"
      [] c = "x" -> "X"
      [] OTHER -> c

\* str.upper()
upper(s) == PyStr([i \in 1..Len(s.v) |-> UpperChar(s.v[i])])

isinstance_str(x) == x.type = "str"

(***************************************************************************)
(* Integer bit operations (Python's &, | and shifts on non-negative ints)  *)
(***************************************************************************)
Pow2(n) == 2 ^ n

RECURSIVE BitAnd(_, _)
BitAnd(a, b) ==
    IF a = 0 \/ b = 0 THEN 0
    ELSE (IF a % 2 = 1 /\ b % 2 = 1 THEN 1 ELSE 0) + 2 * BitAnd(a \div 2, b \div 2)

RECURSIVE BitOr(_, _)
BitOr(a, b) ==
    IF a = 0 THEN b
    ELSE IF b = 0 THEN a
    ELSE (IF a % 2 = 1 \/ b % 2 = 1 THEN 1 ELSE 0) + 2 * BitOr(a \div 2, b \div 2)

ShiftLeft(a, n) == a * Pow2(n)
ShiftRight(a, n) == a \div Pow2(n)

\* convert_from_twos_complement_24_bit: -(v & 0x800000) + (v & 0x7fffff)
convert_from_twos_complement_24_bit(inputValue) ==
    (0 - BitAnd(inputValue, 8388608)) + BitAnd(inputValue, 8388607)

(***************************************************************************)
(* The chip                                                                *)
(***************************************************************************)
\* what the chip is set to by the pulses that follow the 24 data bits:
\* 1 -> channel A gain 128, 2 -> channel B gain 32, 3 -> channel A gain 64;
\* any other count selects nothing the data sheet defines (0: undefined)
ChipSelect(extra) == IF extra \in 1..3 THEN extra ELSE 0

\* a conversion completes and DOUT goes low: the conversion was made under
\* the selection of the preceding read-out (unchanged if nothing was read)
ChipReady(c, word) ==
    LET sel == IF c.n >= 24 THEN ChipSelect(c.n - 24) ELSE c.sel
    IN  [c EXCEPT !.sel = sel, !.cur = sel, !.word = word, !.n = 0]

\* rising edge of PD_SCK: the next bit is shifted out
ChipPulse(c) == [c EXCEPT !.n = c.n + 1]

\* level of DOUT: low when a conversion is ready, then the 24 data bits
\* most significant first, then high
ChipDout(c) ==
    IF c.n = 0 THEN 0
    ELSE IF c.n <= 24 THEN (c.word \div Pow2(24 - c.n)) % 2
    ELSE 1

\* PD_SCK held high for more than 60 us: the chip powers down
ChipPowerDown(c) == [c EXCEPT !.on = FALSE]

\* PD_SCK back low: the chip resets to channel A, gain 128
ChipPowerUp(c) == IF c.on THEN c ELSE [c EXCEPT !.on = TRUE, !.sel = 1, !.cur = 1, !.n = 0]

(***************************************************************************)
(* Call-by-call execution: the world record                                *)
(*   hx, chip, pd_sck : as the variables                                   *)
(*   ins     : the conversions the chip will deliver, in order             *)
(*   ret     : value returned by the last method                           *)
(*   err     : a ValueError is propagating                                 *)
(*   hang    : the call blocks forever (lock held, chip never ready)       *)
(*   starved : ins ran out                                                 *)
(*   acqs    : one record per acquisition made                             *)
(*   pulses  : clock pulses issued                                         *)
(***************************************************************************)
\* the thread of the call-by-call executions
Caller == 1

Stopped(w) == w.err \/ w.hang \/ w.starved

World(ins) ==
    [hx |-> hx, chip |-> chip, pd_sck |-> pd_sck, ins |-> ins, ret |-> None,
     err |-> FALSE, hang |-> FALSE, starved |-> FALSE, acqs |-> <<>>, pulses |-> 0]

\* GPIO.output(self.pd_sck, level)
GPIO_output(w, level) ==
    [w EXCEPT !.pd_sck = level,
              !.chip = IF level THEN ChipPulse(w.chip) ELSE ChipPowerUp(w.chip)]

\* read_next_bit: pulse the clock high then low, sample DOUT afterwards
read_next_bit(w) ==
    Then(GPIO_output(w, TRUE), LAMBDA w1 :
    Then(GPIO_output(w1, FALSE), LAMBDA w2 :
        [w2 EXCEPT !.ret = ChipDout(w2.chip), !.pulses = w.pulses + 1]))

\* ByteStep putting the bit of LSB mode at the bottom of the byte
ByteStep_low(byte_value, bit, bit_format) ==
    IF bit_format = MSB
    THEN BitOr(ShiftLeft(byte_value, 1), bit)
    ELSE BitOr(ShiftRight(byte_value, 1), bit)

\* one iteration of the loop of read_next_byte
ByteStep(byte_value, bit, bit_format) ==
    IF bit_format = MSB
    THEN BitOr(ShiftLeft(byte_value, 1), bit)
    ELSE BitOr(ShiftRight(byte_value, 1), bit * 128)

RECURSIVE read_next_byte_loop(_, _, _)
read_next_byte_loop(w, byte_value, i) ==
    IF Stopped(w) \/ i = 0 THEN [w EXCEPT !.ret = byte_value]
    ELSE Then(read_next_bit(w), LAMBDA w1 :
         Then(ByteStep(byte_value, w1.ret, w.hx.bit_format), LAMBDA b :
             read_next_byte_loop(w1, b, i - 1)))

read_next_byte(w) == read_next_byte_loop(w, 0, 8)

\* for _ in range(self.gain): self.read_next_bit()
RECURSIVE extra_pulses(_, _)
extra_pulses(w, i) ==
    IF Stopped(w) \/ i <= 0 THEN w
    ELSE Then(read_next_bit(w), LAMBDA w1 : extra_pulses(w1, i - 1))

\* arguments given to set_reading_format: the two recognised names, the same
\* in lower case, an unrecognised name and a value that is not a string
FormatArgs ==
    {MSB, LSB, PyStr(<<"l", "s", "b">>), PyStr(<<"m", "s", "b">>), PyStr(<<"x">>), PyInt(<<"7">>)}

\* 24-bit words the chip delivers
Words == {5, 16777215, 1193046}

\* further words, for the bit and byte order: 0, 1, 0x800000, 0x7FFFFF,
\* 0x0180FE, 0xA5C30F, 0xFE0180, 0x0000FF
BitWords == {0, 1, 8388608, 8388607, 98558, 10863375, 16646528, 255}

\* The three read_next_byte calls of read_raw_bytes, on a chip that has the
\* conversion word ready: the bytes they return and the clock pulses they
\* issue depend on the word and on bit_format only, so they are tabulated.
DataBytes ==
    [word \in Words \cup BitWords, bit_format \in {f \in FormatArgs : isinstance_str(f)} |->
        Then([hx |-> [bit_format |-> bit_format],
              chip |-> [on |-> TRUE, sel |-> 1, cur |-> 1, word |-> word, n |-> 0],
              pd_sck |-> FALSE, ret |-> None, pulses |-> 0,
              err |-> FALSE, hang |-> FALSE, starved |-> FALSE], LAMBDA w0 :
        Then(read_next_byte(w0), LAMBDA w1 :
        Then(read_next_byte(w1), LAMBDA w2 :
        Then(read_next_byte(w2), LAMBDA w3 :
            [first_byte |-> w1.ret, second_byte |-> w2.ret, third_byte |-> w3.ret,
             n |-> w3.chip.n, pd_sck |-> w3.pd_sck, pulses |-> w3.pulses]))))]

read_raw_bytes(w) ==
    IF Stopped(w) THEN w
    ELSE IF w.hx.read_lock # 0 THEN [w EXCEPT !.hang = TRUE]
    ELSE IF ~w.chip.on THEN [w EXCEPT !.hang = TRUE, !.hx.read_lock = Caller]
    ELSE IF w.ins = <<>> THEN [w EXCEPT !.starved = TRUE]
    ELSE
      Then([w EXCEPT !.hx.read_lock = Caller,
                     !.chip = ChipReady(w.chip, Head(w.ins)),
                     !.ins = Tail(w.ins)], LAMBDA w0 :
      Then(DataBytes[w0.chip.word, w0.hx.bit_format], LAMBDA data :
      Then([w0 EXCEPT !.chip.n = data.n, !.pd_sck = data.pd_sck,
                      !.pulses = w0.pulses + data.pulses], LAMBDA w3 :
      Then(extra_pulses(w3, w3.hx.gain), LAMBDA w4 :
        LET first_byte == data.first_byte
            second_byte == data.second_byte
            third_byte == data.third_byte
        IN  [w4 EXCEPT !.hx.read_lock = 0,
                       !.acqs = Append(w.acqs, [cur |-> w0.chip.cur,
                                                extra |-> w4.chip.n - 24,
                                                word |-> w0.chip.word,
                                                used |-> FALSE, val |-> 0]),
                       !.ret = IF w4.hx.byte_format = LSB
                               THEN <<third_byte, second_byte, first_byte>>
                               ELSE <<first_byte, second_byte, third_byte>>]))))

\* GainCode with the codes of gain 64 and gain 32 exchanged
GainCode_swapped(old, gain) ==
    IF gain = 128 THEN 1
    ELSE IF gain = 64 THEN 2
    ELSE IF gain = 32 THEN 3
    ELSE old

\* the pulse-count code set_gain stores for its argument
GainCode(old, gain) ==
    IF gain = 128 THEN 1
    ELSE IF gain = 64 THEN 3
    ELSE IF gain = 32 THEN 2
    ELSE old

\* set_gain without the acquisition it throws away
set_gain_no_discard(w, gain) ==
    IF Stopped(w) THEN w
    ELSE Then([w EXCEPT !.hx.gain = GainCode(w.hx.gain, gain)], LAMBDA w1 :
             [GPIO_output(w1, FALSE) EXCEPT !.ret = None])

set_gain(w, gain) ==
    IF Stopped(w) THEN w
    ELSE Then([w EXCEPT !.hx.gain = GainCode(w.hx.gain, gain)], LAMBDA w1 :
         Then(GPIO_output(w1, FALSE), LAMBDA w2 :
         Then(read_raw_bytes(w2), LAMBDA w3 :
             IF Stopped(w3) THEN w3 ELSE [w3 EXCEPT !.ret = None])))

get_gain(h) ==
    IF h.gain = 1 THEN 128
    ELSE IF h.gain = 3 THEN 64
    ELSE IF h.gain = 2 THEN 32
    ELSE 0

read_long(w) ==
    Then(read_raw_bytes(w), LAMBDA w1 :
        IF Stopped(w1) THEN w1
        ELSE Then(w1.ret, LAMBDA data_bytes :
             Then(BitOr(ShiftLeft(data_bytes[1], 16), ShiftLeft(data_bytes[2], 8)), LAMBDA high :
             Then(BitOr(high, data_bytes[3]), LAMBDA twos_complement_value :
             Then(convert_from_twos_complement_24_bit(twos_complement_value),
                  LAMBDA signed_int_value :
                 [w1 EXCEPT !.hx.last_val = signed_int_value,
                            !.acqs[Len(w1.acqs)].used = TRUE,
                            !.acqs[Len(w1.acqs)].val = signed_int_value,
                            !.ret = signed_int_value])))))

(***************************************************************************)
(* Numbers: sum(...) / len(...) and the values computed from it are kept   *)
(* as exact fractions [n, d] in lowest terms with d > 0                    *)
(***************************************************************************)
Abs(x) == IF x < 0 THEN 0 - x ELSE x

RECURSIVE Gcd(_, _)
Gcd(a, b) == IF b = 0 THEN a ELSE Then(a % b, LAMBDA r : Gcd(b, r))

Rat(n, d) ==
    Then(Gcd(Abs(n), Abs(d)), LAMBDA g :
        LET s == IF d < 0 THEN 0 - 1 ELSE 1
        IN  [n |-> (s * n) \div g, d |-> (s * d) \div g])

Num(i) == [n |-> i, d |-> 1]

RatSub(a, b) ==
    Then(a.n * b.d - b.n * a.d, LAMBDA n : Then(a.d * b.d, LAMBDA d : Rat(n, d)))

RatDiv(a, b) ==
    Then(a.n * b.d, LAMBDA n : Then(a.d * b.n, LAMBDA d : Rat(n, d)))

(***************************************************************************)
(* Python lists                                                            *)
(***************************************************************************)
RECURSIVE sum(_)
sum(l) == IF l = <<>> THEN 0 ELSE Head(l) + sum(Tail(l))

RECURSIVE Insert(_, _)
Insert(l, x) ==
    IF l = <<>> THEN <<x>>
    ELSE IF x < Head(l) THEN <<x>> \o l
    ELSE Then(Tail(l), LAMBDA t : <<Head(l)>> \o Insert(t, x))

\* list.sort(): ascending
RECURSIVE sort(_)
sort(l) == IF l = <<>> THEN <<>> ELSE Then(sort(Tail(l)), LAMBDA s : Insert(s, Head(l)))

\* l[a:b] with Python's treatment of negative and out-of-range indices
PyIndex(len, i) == IF i < 0 THEN (IF len + i < 0 THEN 0 ELSE len + i)
                   ELSE (IF i > len THEN len ELSE i)

PySlice(l, a, b) ==
    Then(PyIndex(Len(l), a), LAMBDA lo :
    Then(PyIndex(Len(l), b), LAMBDA hi :
        IF lo >= hi THEN <<>> ELSE SubSeq(l, lo + 1, hi)))

(***************************************************************************)
(* Aggregation                                                             *)
(***************************************************************************)
\* for _ in range(times): value_list.append(self.read_long())
RECURSIVE read_longs(_, _, _)
read_longs(w, value_list, i) ==
    IF Stopped(w) THEN w
    ELSE IF i <= 0 THEN [w EXCEPT !.ret = value_list]
    ELSE Then(read_long(w), LAMBDA w1 :
             IF Stopped(w1) THEN w1
             ELSE Then(Append(value_list, w1.ret), LAMBDA l : read_longs(w1, l, i - 1)))

Raise(w) == [w EXCEPT !.err = TRUE, !.ret = None]

ReturnNum(w) == IF Stopped(w) THEN w ELSE [w EXCEPT !.ret = Num(w.ret)]

read_median(w, times) ==
    IF Stopped(w) THEN w
    ELSE IF times <= 0 THEN Raise(w)
    ELSE IF times = 1 THEN Then(read_long(w), LAMBDA w1 : ReturnNum(w1))
    ELSE Then(read_longs(w, <<>>, times), LAMBDA w1 :
             IF Stopped(w1) THEN w1
             ELSE Then(sort(w1.ret), LAMBDA value_list :
                  IF times % 2 = 1
                  THEN [w1 EXCEPT !.ret = Num(value_list[(Len(value_list) \div 2) + 1])]
                  ELSE Then(Len(value_list) \div 2, LAMBDA midpoint :
                       Then(PySlice(value_list, midpoint - 1, midpoint + 1), LAMBDA middle :
                           [w1 EXCEPT !.ret = Rat(sum(middle), 2)]))))

\* read_average taking the mean of all the samples, none trimmed
read_average_untrimmed(w, times) ==
    IF Stopped(w) THEN w
    ELSE IF times <= 0 THEN Raise(w)
    ELSE IF times = 1 THEN Then(read_long(w), LAMBDA w1 : ReturnNum(w1))
    ELSE IF times < 5 THEN read_median(w, times)
    ELSE Then(read_longs(w, <<>>, times), LAMBDA w1 :
             IF Stopped(w1) THEN w1
             ELSE [w1 EXCEPT !.ret = Rat(sum(w1.ret), Len(w1.ret))])

read_average(w, times) ==
    IF Stopped(w) THEN w
    ELSE IF times <= 0 THEN Raise(w)
    ELSE IF times = 1 THEN Then(read_long(w), LAMBDA w1 : ReturnNum(w1))
    ELSE IF times < 5 THEN read_median(w, times)
    ELSE Then(read_longs(w, <<>>, times), LAMBDA w1 :
             IF Stopped(w1) THEN w1
             ELSE Then(sort(w1.ret), LAMBDA sorted :
                  Then((Len(sorted) * 2) \div 10, LAMBDA trim_amount :
                  Then(PySlice(sorted, trim_amount, 0 - trim_amount), LAMBDA value_list :
                      IF Len(value_list) = 0 THEN Raise(w1)
                      ELSE [w1 EXCEPT !.ret = Rat(sum(value_list), Len(value_list))]))))

(***************************************************************************)
(* Calibration accessors                                                   *)
(***************************************************************************)
\* set_offset_a that stores nothing
set_offset_a_dropped(w, offset) == IF Stopped(w) THEN w ELSE [w EXCEPT !.ret = None]

set_offset_a(w, offset) == IF Stopped(w) THEN w ELSE [w EXCEPT !.hx.offset = offset, !.ret = None]
\* set_offset_b storing into the offset of channel A
set_offset_b_crossed(w, offset) == IF Stopped(w) THEN w ELSE [w EXCEPT !.hx.offset = offset, !.ret = None]

set_offset_b(w, offset) == IF Stopped(w) THEN w ELSE [w EXCEPT !.hx.offset_b = offset, !.ret = None]
set_offset(w, offset) == set_offset_a(w, offset)

get_offset_a(h) == h.offset
get_offset_b(h) == h.offset_b
get_offset(h) == get_offset_a(h)

set_reference_unit_a(w, reference_unit) ==
    IF Stopped(w) THEN w
    ELSE IF reference_unit = 0 THEN Raise(w)
    ELSE [w EXCEPT !.hx.reference_unit = reference_unit, !.ret = None]

\* set_reference_unit_b without the check for 0
set_reference_unit_b_unchecked(w, reference_unit) ==
    IF Stopped(w) THEN w
    ELSE [w EXCEPT !.hx.reference_unit_b = reference_unit, !.ret = None]

set_reference_unit_b(w, reference_unit) ==
    IF Stopped(w) THEN w
    ELSE IF reference_unit = 0 THEN Raise(w)
    ELSE [w EXCEPT !.hx.reference_unit_b = reference_unit, !.ret = None]

set_reference_unit(w, reference_unit) == set_reference_unit_a(w, reference_unit)

get_reference_unit_a(h) == h.reference_unit
get_reference_unit_b(h) == h.reference_unit_b
get_reference_unit(h) == get_reference_unit_a(h)

(***************************************************************************)
(* Values, weights, tare                                                   *)
(***************************************************************************)
\* get_value_a adding the offset instead of subtracting it
get_value_a_added(w, times) ==
    Then(read_median(w, times), LAMBDA w1 :
        IF Stopped(w1) THEN w1
        ELSE [w1 EXCEPT !.ret = RatSub(w1.ret, RatSub(Num(0), get_offset_a(w1.hx)))])

get_value_a(w, times) ==
    Then(read_median(w, times), LAMBDA w1 :
        IF Stopped(w1) THEN w1
        ELSE [w1 EXCEPT !.ret = RatSub(w1.ret, get_offset_a(w1.hx))])

get_value(w, times) == get_value_a(w, times)

\* get_value_b that does not set the gain back
get_value_b_unrestored(w, times) ==
    IF Stopped(w) THEN w
    ELSE Then(set_gain(w, 32), LAMBDA w1 :
         Then(read_median(w1, times), LAMBDA w2 :
             IF Stopped(w2) THEN w2
             ELSE [w2 EXCEPT !.ret = RatSub(w2.ret, get_offset_b(w2.hx))]))

get_value_b(w, times) ==
    IF Stopped(w) THEN w
    ELSE Then(get_gain(w.hx), LAMBDA g :
         Then(set_gain(w, 32), LAMBDA w1 :
         Then(read_median(w1, times), LAMBDA w2 :
             IF Stopped(w2) THEN w2
             ELSE Then(RatSub(w2.ret, get_offset_b(w2.hx)), LAMBDA value :
                  Then(set_gain(w2, g), LAMBDA w3 :
                      IF Stopped(w3) THEN w3 ELSE [w3 EXCEPT !.ret = value])))))

get_weight_A(w, times) ==
    Then(get_value_a(w, times), LAMBDA w1 :
        IF Stopped(w1) THEN w1
        ELSE [w1 EXCEPT !.ret = RatDiv(w1.ret, Num(w1.hx.reference_unit))])

get_weight(w, times) == get_weight_A(w, times)

get_weight_B(w, times) ==
    Then(get_value_b(w, times), LAMBDA w1 :
        IF Stopped(w1) THEN w1
        ELSE [w1 EXCEPT !.ret = RatDiv(w1.ret, Num(w1.hx.reference_unit_b))])

\* tare_a that leaves the reference unit at the 1 it forces for the reading
tare_a_unit_forgotten(w, times) ==
    IF Stopped(w) THEN w
    ELSE Then(set_reference_unit_a(w, 1), LAMBDA w1 :
         Then(read_average(w1, times), LAMBDA w2 :
             IF Stopped(w2) THEN w2
             ELSE Then(w2.ret, LAMBDA value :
                  Then(set_offset_a(w2, value), LAMBDA w3 :
                      IF Stopped(w3) THEN w3 ELSE [w3 EXCEPT !.ret = value]))))

tare_a(w, times) ==
    IF Stopped(w) THEN w
    ELSE Then(get_reference_unit_a(w.hx), LAMBDA backup_reference_unit :
         Then(set_reference_unit_a(w, 1), LAMBDA w1 :
         Then(read_average(w1, times), LAMBDA w2 :
             IF Stopped(w2) THEN w2
             ELSE Then(w2.ret, LAMBDA value :
                  Then(set_offset_a(w2, value), LAMBDA w3 :
                  Then(set_reference_unit_a(w3, backup_reference_unit), LAMBDA w4 :
                      IF Stopped(w4) THEN w4 ELSE [w4 EXCEPT !.ret = value]))))))

tare(w, times) == tare_a(w, times)

tare_B(w, times) ==
    IF Stopped(w) THEN w
    ELSE Then(get_reference_unit_b(w.hx), LAMBDA backup_reference_unit :
         Then(set_reference_unit_b(w, 1), LAMBDA w1 :
         Then(get_gain(w1.hx), LAMBDA backup_gain :
         Then(set_gain(w1, 32), LAMBDA w2 :
         Then(read_average(w2, times), LAMBDA w3 :
             IF Stopped(w3) THEN w3
             ELSE Then(w3.ret, LAMBDA value :
                  Then(set_offset_b(w3, value), LAMBDA w4 :
                  Then(set_gain(w4, backup_gain), LAMBDA w5 :
                  Then(set_reference_unit_b(w5, backup_reference_unit), LAMBDA w6 :
                      IF Stopped(w6) THEN w6 ELSE [w6 EXCEPT !.ret = value])))))))))

(***************************************************************************)
(* Reading format                                                          *)
(***************************************************************************)
allowed_formats == {LSB, MSB}

set_reading_format(w, byte_format, bit_format) ==
    IF Stopped(w) THEN w
    ELSE IF ~isinstance_str(byte_format) THEN Raise(w)
    ELSE IF ~isinstance_str(bit_format) THEN Raise(w)
    ELSE IF upper(byte_format) \notin allowed_formats THEN Raise(w)
    ELSE Then([w EXCEPT !.hx.byte_format = byte_format], LAMBDA w1 :
             IF upper(bit_format) \notin allowed_formats THEN Raise(w1)
             ELSE [w1 EXCEPT !.hx.bit_format = bit_format, !.ret = None])

(***************************************************************************)
(* Power                                                                   *)
(***************************************************************************)
power_down(w) ==
    IF Stopped(w) THEN w
    ELSE IF w.hx.read_lock # 0 THEN [w EXCEPT !.hang = TRUE]
    ELSE Then([w EXCEPT !.hx.read_lock = Caller], LAMBDA w1 :
         Then(GPIO_output(w1, FALSE), LAMBDA w2 :
         Then(GPIO_output(w2, TRUE), LAMBDA w3 :
         \* time.sleep(0.0001) with the clock high
         Then([w3 EXCEPT !.chip = ChipPowerDown(w3.chip)], LAMBDA w4 :
             [w4 EXCEPT !.hx.read_lock = 0, !.ret = None]))))

\* power_up without the acquisition that brings the chip back to the gain
power_up_no_resync(w) ==
    IF Stopped(w) THEN w
    ELSE IF w.hx.read_lock # 0 THEN [w EXCEPT !.hang = TRUE]
    ELSE Then([w EXCEPT !.hx.read_lock = Caller], LAMBDA w1 :
         Then(GPIO_output(w1, FALSE), LAMBDA w2 :
             [w2 EXCEPT !.hx.read_lock = 0, !.ret = None]))

power_up(w) ==
    IF Stopped(w) THEN w
    ELSE IF w.hx.read_lock # 0 THEN [w EXCEPT !.hang = TRUE]
    ELSE Then([w EXCEPT !.hx.read_lock = Caller], LAMBDA w1 :
         Then(GPIO_output(w1, FALSE), LAMBDA w2 :
         Then([w2 EXCEPT !.hx.read_lock = 0, !.ret = None], LAMBDA w3 :
             IF get_gain(w3.hx) # 128
             THEN Then(read_raw_bytes(w3), LAMBDA w4 :
                      IF Stopped(w4) THEN w4 ELSE [w4 EXCEPT !.ret = None])
             ELSE w3)))

reset(w) == Then(power_down(w), LAMBDA w1 : power_up(w1))

\* convert_to_twos_complement_24_bit keeping the low 24 bits of a value
\* below the range instead of saturating it
convert_to_unsaturated(input_value) ==
    IF input_value >= 8388607 THEN 8388607
    ELSE IF input_value >= 0 THEN BitAnd(input_value, 8388607)
    ELSE input_value % 16777216

convert_to_twos_complement_24_bit(input_value) ==
    IF input_value >= 8388607 THEN 8388607
    ELSE IF input_value >= 0 THEN BitAnd(input_value, 8388607)
    ELSE LET clamped == IF input_value < 0 - 8388608 THEN 0 - 8388608 ELSE input_value
             diff == clamped + 8388608
         IN  8388608 + diff

(***************************************************************************)
(* The simulated driver (emulated_hx711.py). Its methods carry the prefix  *)
(* emulated_; its world record holds the driver object in hx and in ins    *)
(* the values generate_fake_sample will return, in order.                  *)
(***************************************************************************)
\* the attributes as __init__ sets them before it calls set_gain
NewEmulated ==
    [read_lock |-> 0, gain |-> 0, reference_unit |-> 1, offset |-> Num(1),
     last_val |-> 0, byte_format |-> MSB, bit_format |-> MSB,
     simulate_tare |-> FALSE, sample_count |-> 0]

EmulatedWorld(object, ins) ==
    [hx |-> object, ins |-> ins, ret |-> None,
     err |-> FALSE, hang |-> FALSE, starved |-> FALSE]

\* the busy wait on the wall clock ends: is_ready() turns true 1/80 s after
\* the last read
emulated_read_raw_bytes(w) ==
    IF Stopped(w) THEN w
    ELSE IF w.hx.read_lock # 0 THEN [w EXCEPT !.hang = TRUE]
    ELSE IF w.ins = <<>> THEN [w EXCEPT !.starved = TRUE]
    ELSE Then(convert_to_twos_complement_24_bit(Head(w.ins)), LAMBDA raw_sample :
         Then(BitAnd(ShiftRight(raw_sample, 16), 255), LAMBDA first_byte :
         Then(BitAnd(ShiftRight(raw_sample, 8), 255), LAMBDA second_byte :
         Then(BitAnd(raw_sample, 255), LAMBDA third_byte :
             [w EXCEPT !.ins = Tail(w.ins),
                       !.hx.sample_count = w.hx.sample_count + 1,
                       !.ret = IF w.hx.byte_format = LSB
                               THEN <<third_byte, second_byte, first_byte>>
                               ELSE <<first_byte, second_byte, third_byte>>]))))

emulated_set_gain(w, gain) ==
    IF Stopped(w) THEN w
    ELSE Then([w EXCEPT !.hx.gain = GainCode(w.hx.gain, gain)], LAMBDA w1 :
         Then(emulated_read_raw_bytes(w1), LAMBDA w2 :
             IF Stopped(w2) THEN w2 ELSE [w2 EXCEPT !.ret = None]))

emulated_read_long(w) ==
    Then(emulated_read_raw_bytes(w), LAMBDA w1 :
        IF Stopped(w1) THEN w1
        ELSE Then(w1.ret, LAMBDA data_bytes :
             Then(BitOr(ShiftLeft(data_bytes[1], 16), ShiftLeft(data_bytes[2], 8)), LAMBDA high :
             Then(BitOr(high, data_bytes[3]), LAMBDA twos_complement_value :
             Then(convert_from_twos_complement_24_bit(twos_complement_value),
                  LAMBDA signed_int_value :
                 [w1 EXCEPT !.hx.last_val = signed_int_value,
                            !.ret = signed_int_value])))))

\* for _ in range(times): value_list += [self.read_long()]
RECURSIVE emulated_read_longs(_, _, _)
emulated_read_longs(w, value_list, i) ==
    IF Stopped(w) THEN w
    ELSE IF i <= 0 THEN [w EXCEPT !.ret = value_list]
    ELSE Then(emulated_read_long(w), LAMBDA w1 :
             IF Stopped(w1) THEN w1
             ELSE Then(Append(value_list, w1.ret), LAMBDA l :
                      emulated_read_longs(w1, l, i - 1)))

emulated_read_average(w, times_given) ==
    IF Stopped(w) THEN w
    ELSE Then(IF times_given <= 0 THEN 1 ELSE times_given, LAMBDA times :
         IF times = 1 THEN Then(emulated_read_long(w), LAMBDA w1 : ReturnNum(w1))
         ELSE Then(emulated_read_longs(w, <<>>, times), LAMBDA w1 :
              IF Stopped(w1) THEN w1
              ELSE IF times < 5 THEN [w1 EXCEPT !.ret = Rat(sum(w1.ret), times)]
              ELSE Then(sort(w1.ret), LAMBDA sorted :
                   Then((Len(sorted) * 2) \div 10, LAMBDA trim_amount :
                   Then(PySlice(sorted, trim_amount, 0 - trim_amount), LAMBDA value_list :
                       IF Len(value_list) = 0 THEN Raise(w1)
                       ELSE [w1 EXCEPT !.ret = Rat(sum(value_list), Len(value_list))])))))

emulated_get_value(w, times) ==
    Then(emulated_read_average(w, times), LAMBDA w1 :
        IF Stopped(w1) THEN w1
        ELSE [w1 EXCEPT !.ret = RatSub(w1.ret, w1.hx.offset)])

emulated_get_weight(w, times) ==
    Then(emulated_get_value(w, times), LAMBDA w1 :
        IF Stopped(w1) THEN w1
        ELSE [w1 EXCEPT !.ret = RatDiv(w1.ret, Num(w1.hx.reference_unit))])

emulated_set_offset(w, offset) ==
    IF Stopped(w) THEN w ELSE [w EXCEPT !.hx.offset = offset, !.ret = None]

\* a reference unit of 0 is reported on the console and not stored
emulated_set_reference_unit(w, reference_unit) ==
    IF Stopped(w) THEN w
    ELSE IF reference_unit = 0 THEN [w EXCEPT !.ret = None]
    ELSE [w EXCEPT !.hx.reference_unit = reference_unit, !.ret = None]

emulated_tare(w, times) ==
    IF Stopped(w) THEN w
    ELSE IF ~w.hx.simulate_tare THEN [w EXCEPT !.ret = Num(0)]
    ELSE Then(w.hx.reference_unit, LAMBDA reference_unit :
         Then(emulated_set_reference_unit(w, 1), LAMBDA w1 :
         Then(emulated_read_average(w1, times), LAMBDA w2 :
             IF Stopped(w2) THEN w2
             ELSE Then(w2.ret, LAMBDA value :
                  Then(emulated_set_offset(w2, value), LAMBDA w3 :
                  Then(emulated_set_reference_unit(w3, reference_unit), LAMBDA w4 :
                      IF Stopped(w4) THEN w4 ELSE [w4 EXCEPT !.ret = value]))))))

\* HX711(dout, pd_sck) of the simulated driver; the sample its set_gain
\* throws away leaves nothing behind
emulated_init(ins, gain) == emulated_set_gain(EmulatedWorld(NewEmulated, ins), gain)

\* the simulated driver after construction with the default gain
NewEmu ==
    Then(emulated_init(<<0>>, 128), LAMBDA w : [hx |-> w.hx, ret |-> w.ret, err |-> w.err])

(***************************************************************************)
(* Construction                                                            *)
(***************************************************************************)
\* gain arguments: the three recognised ones and two others
GainArgs == {128, 64, 32, 0, 100}

\* the attributes as __init__ sets them before it calls set_gain
NewHX ==
    [read_lock |-> 0, gain |-> 0, reference_unit |-> 1, reference_unit_b |-> 1,
     offset |-> Num(1), offset_b |-> Num(1), last_val |-> 0,
     byte_format |-> MSB, bit_format |-> MSB]

\* the chip after power-on: channel A, gain 128, no conversion read yet
NewChip == [on |-> TRUE, sel |-> 1, cur |-> 1, word |-> 0, n |-> 0]

NewWorld(ins) ==
    [hx |-> NewHX, chip |-> NewChip, pd_sck |-> FALSE, ins |-> ins, ret |-> None,
     err |-> FALSE, hang |-> FALSE, starved |-> FALSE, acqs |-> <<>>, pulses |-> 0]

\* __init__(dout, pd_sck, gain)
init(ins, gain) == Then(NewWorld(ins), LAMBDA w : set_gain(w, gain))

(***************************************************************************)
(* Actions: one public call each                                           *)
(***************************************************************************)
\* the threads that call into the driver once it is constructed
Threads == 1..NThreads

\* a thread that is in no method of the driver
\* stack holds the statements to resume at when the methods called return,
\* innermost first; g, unit, times and values are the locals of the
\* channel-B methods: the gain and reference unit backed up, the argument,
\* value_list and value
IdleThread ==
    [pc |-> "idle", op |-> "", i |-> 0, k |-> 0, byte_value |-> 0, bytes |-> <<>>,
     ret |-> None, calls |-> 0, stack |-> <<>>, g |-> 0, unit |-> 0, times |-> 0,
     values |-> <<>>, value |-> None]

\* no thread has touched the lines yet
NewLine == [pulses |-> 0, by |-> 0, kind |-> "", held |-> TRUE, during |-> {}]

\* a supply of conversions long enough for any one call; the number a call
\* consumes does not depend on the words delivered
Probe == [i \in 1..(MaxTimes + LongTimes + 2) |-> CHOOSE word \in Words : TRUE]

\* the conversions a call consumes, given its run on the probe supply
InputsFrom(probed, Ws) == [1..(Len(Probe) - Len(probed.ins)) -> Ws]

Inputs(probed) == InputsFrom(probed, Words)

\* the call returned or raised, and consumed exactly the conversions given
Completed(w) == ~w.hang /\ ~w.starved /\ w.ins = <<>>

CommitDriver(w, op, args) ==
    /\ Completed(w)
    /\ hx' = w.hx
    /\ chip' = w.chip
    /\ pd_sck' = w.pd_sck
    /\ call' = [op |-> op, args |-> args, err |-> w.err, ret |-> w.ret,
                acqs |-> w.acqs, pulses |-> w.pulses]
    /\ UNCHANGED <<thread, line>>

\* a call on the hardware-backed driver: the simulated one is not involved
Commit(w, op, args) ==
    /\ CommitDriver(w, op, args)
    /\ UNCHANGED emu

ValidGain(g) == g \in {128, 64, 32}

Init ==
    \E gain \in GainArgs : \E ins \in Inputs(init(Probe, gain)) : \E w \in {init(ins, gain)} :
        /\ Completed(w)
        /\ hx = w.hx
        /\ chip = w.chip
        /\ pd_sck = w.pd_sck
        /\ call = [op |-> "__init__", args |-> <<gain>>, err |-> w.err, ret |-> w.ret,
                   acqs |-> w.acqs, pulses |-> w.pulses]
        /\ setting = IF ValidGain(gain) THEN gain ELSE 0
        /\ thread = [t \in Threads |-> IdleThread]
        /\ line = NewLine
        /\ emu = NewEmu

Call_set_gain ==
    \E gain \in GainArgs : \E p \in {World(Probe)} : \E ins \in Inputs(set_gain(p, gain)) :
    \E w0 \in {World(ins)} : \E w \in {set_gain(w0, gain)} :
        /\ Commit(w, "set_gain", <<gain>>)
        /\ setting' = IF ValidGain(gain) THEN gain ELSE 0

Call_read_long ==
    \E p \in {World(Probe)} : \E ins \in Inputs(read_long(p)) :
    \E w0 \in {World(ins)} : \E w \in {read_long(w0)} :
        /\ Commit(w, "read_long", <<>>)
        /\ UNCHANGED setting

Call_power_down ==
    \E w0 \in {World(<<>>)} : \E w \in {power_down(w0)} :
        /\ Commit(w, "power_down", <<>>)
        /\ setting' = 0

Call_power_up ==
    \E p \in {World(Probe)} : \E ins \in Inputs(power_up(p)) :
    \E w0 \in {World(ins)} : \E w \in {power_up(w0)} :
        /\ Commit(w, "power_up", <<>>)
        /\ setting' = 0

\* times of the channel-B calls of the gain specification
GainTimes == {0, 1}

Call_get_value_b(T) ==
    \E times \in T : \E p \in {World(Probe)} : \E ins \in Inputs(get_value_b(p, times)) :
    \E w0 \in {World(ins)} : \E w \in {get_value_b(w0, times)} :
        /\ Commit(w, "get_value_b", <<times>>)
        /\ setting' = 0

Call_tare_B(T, Ws) ==
    \E times \in T : \E p \in {World(Probe)} : \E ins \in InputsFrom(tare_B(p, times), Ws) :
    \E w0 \in {World(ins)} : \E w \in {tare_B(w0, times)} :
        /\ Commit(w, "tare_B", <<times>>)
        /\ setting' = 0

(***************************************************************************)
(* Gain and channel selection, single-threaded                             *)
(***************************************************************************)
NextGain ==
    \/ Call_set_gain
    \/ Call_read_long
    \/ Call_power_down
    \/ Call_power_up
    \/ Call_get_value_b(GainTimes)
    \/ Call_tare_B(GainTimes, Words)

SpecGain == Init /\ [][NextGain]_vars

\* the pulse-count code of a recognised gain, as the data model gives it
CodeOf(v) == CASE v = 128 -> 1 [] v = 64 -> 3 [] v = 32 -> 2

\* C3: set_gain(v) with a recognised v stores the code of v and makes exactly
\* one acquisition, discarded, that sends code(v) extra pulses; every sample
\* read_long returns while that setting is in force (no later set_gain or
\* power operation) was converted by the chip under setting v.
C3_OneSampleLatency ==
    /\ (call.op = "set_gain" /\ ValidGain(call.args[1])) =>
          /\ hx.gain = CodeOf(call.args[1])
          /\ Len(call.acqs) = 1
          /\ ~call.acqs[1].used
          /\ call.acqs[1].extra = CodeOf(call.args[1])
    /\ (call.op = "read_long" /\ setting # 0) =>
          /\ Len(call.acqs) = 1
          /\ call.acqs[1].used
          /\ call.acqs[1].cur = CodeOf(setting)

\* a read_long whose sample was converted on channel B after set_gain(32)
C3_Witness ==
    /\ call.op = "read_long"
    /\ setting = 32
    /\ call.acqs[1].used
    /\ call.acqs[1].cur = 2

\* C4: get_gain() after set_gain(v) is v for v in {128, 64, 32}; after
\* set_gain of any other argument it is what it was before the call.
C4_GainRoundTrip ==
    [][call'.op = "set_gain" =>
          IF call'.args[1] \in {128, 64, 32}
          THEN get_gain(hx') = call'.args[1]
          ELSE get_gain(hx') = get_gain(hx)]_vars

\* set_gain(100) returned and left the gain at 64
C4_Witness ==
    /\ call.op = "set_gain"
    /\ call.args[1] = 100
    /\ get_gain(hx) = 64

\* C5: in every state after construction the pulse-count code is one of
\* 1, 2, 3, get_gain() is one of 128, 64, 32, and every acquisition sends
\* between 1 and 3 extra pulses.
C5_GainCodeValid ==
    /\ hx.gain \in {1, 2, 3}
    /\ get_gain(hx) \in {128, 64, 32}
    /\ \A i \in 1..Len(call.acqs) : call.acqs[i].extra \in 1..3

(***************************************************************************)
(* Reading format                                                          *)
(***************************************************************************)
Call_set_reading_format ==
    \E byte_format \in FormatArgs : \E bit_format \in FormatArgs :
    \E w0 \in {World(<<>>)} : \E w \in {set_reading_format(w0, byte_format, bit_format)} :
        /\ Commit(w, "set_reading_format", <<byte_format, bit_format>>)
        /\ UNCHANGED setting

\* a driver constructed with the default gain
InitDefault == Init /\ call.args = <<128>>

NextFmt ==
    \/ Call_set_reading_format
    \/ Call_read_long

SpecFmt == InitDefault /\ [][NextFmt]_vars

\* C7: set_reading_format either stores both arguments or, when it raises,
\* leaves byte_format and bit_format as they were before the call.
C7_FormatAllOrNothing ==
    [][call'.op = "set_reading_format" =>
          IF call'.err
          THEN hx'.byte_format = hx.byte_format /\ hx'.bit_format = hx.bit_format
          ELSE hx'.byte_format = call'.args[1] /\ hx'.bit_format = call'.args[2]]_vars

\* C8: the stored byte format and bit format are each exactly 'MSB' or 'LSB'.
C8_FormatsRecognised ==
    /\ hx.byte_format \in {MSB, LSB}
    /\ hx.bit_format \in {MSB, LSB}

(***************************************************************************)
(* Calibration                                                             *)
(***************************************************************************)
\* reference units given to the setters
RefArgs == {0, 2}

\* sample counts given to the tare calls of the calibration specification
CalTimes == {0 - 1, 0, 1}

\* words the chip delivers in the calibration specification
CalWords == {5, 16777215}

Call_set_reference_unit ==
    \E reference_unit \in RefArgs :
    \E w0 \in {World(<<>>)} : \E w \in {set_reference_unit(w0, reference_unit)} :
        /\ Commit(w, "set_reference_unit", <<reference_unit>>)
        /\ UNCHANGED setting

Call_set_reference_unit_a ==
    \E reference_unit \in RefArgs :
    \E w0 \in {World(<<>>)} : \E w \in {set_reference_unit_a(w0, reference_unit)} :
        /\ Commit(w, "set_reference_unit_a", <<reference_unit>>)
        /\ UNCHANGED setting

Call_set_reference_unit_b ==
    \E reference_unit \in RefArgs :
    \E w0 \in {World(<<>>)} : \E w \in {set_reference_unit_b(w0, reference_unit)} :
        /\ Commit(w, "set_reference_unit_b", <<reference_unit>>)
        /\ UNCHANGED setting

Call_tare(T, Ws) ==
    \E times \in T : \E p \in {World(Probe)} : \E ins \in InputsFrom(tare(p, times), Ws) :
    \E w0 \in {World(ins)} : \E w \in {tare(w0, times)} :
        /\ Commit(w, "tare", <<times>>)
        /\ UNCHANGED setting

Call_tare_a(T, Ws) ==
    \E times \in T : \E p \in {World(Probe)} : \E ins \in InputsFrom(tare_a(p, times), Ws) :
    \E w0 \in {World(ins)} : \E w \in {tare_a(w0, times)} :
        /\ Commit(w, "tare_a", <<times>>)
        /\ UNCHANGED setting

NextCal ==
    \/ Call_set_reference_unit
    \/ Call_set_reference_unit_a
    \/ Call_set_reference_unit_b
    \/ Call_tare(CalTimes, CalWords)
    \/ Call_tare_a(CalTimes, CalWords)
    \/ Call_tare_B(CalTimes, CalWords)

SpecCal == InitDefault /\ [][NextCal]_vars

\* C6: a reference-unit setter given 0 raises and leaves both reference units
\* as they were; given another value it stores it for its channel and leaves
\* the other channel's; and neither reference unit is ever 0, whatever
\* setters and tare calls have run.
C6_ReferenceUnitNeverZero ==
    [][/\ hx.reference_unit # 0 /\ hx.reference_unit_b # 0
       /\ hx'.reference_unit # 0 /\ hx'.reference_unit_b # 0
       /\ call'.op \in {"set_reference_unit", "set_reference_unit_a"} =>
             IF call'.args[1] = 0
             THEN /\ call'.err
                  /\ hx'.reference_unit = hx.reference_unit
                  /\ hx'.reference_unit_b = hx.reference_unit_b
             ELSE /\ ~call'.err
                  /\ hx'.reference_unit = call'.args[1]
                  /\ hx'.reference_unit_b = hx.reference_unit_b
       /\ call'.op = "set_reference_unit_b" =>
             IF call'.args[1] = 0
             THEN /\ call'.err
                  /\ hx'.reference_unit = hx.reference_unit
                  /\ hx'.reference_unit_b = hx.reference_unit_b
             ELSE /\ ~call'.err
                  /\ hx'.reference_unit_b = call'.args[1]
                  /\ hx'.reference_unit = hx.reference_unit]_vars

\* set_reference_unit_b(0) raised and the channel-B unit stored before is kept
C6_Witness ==
    /\ call.op = "set_reference_unit_b"
    /\ call.args[1] = 0
    /\ call.err
    /\ hx.reference_unit_b = 2
    /\ hx.reference_unit = 1

\* C9: tare, tare_a and tare_B called with times <= 0 raise and leave the
\* offsets, the reference units and the gain as they were before the call.
C9_TareErrorRestores ==
    [][(call'.op \in {"tare", "tare_a", "tare_B"} /\ call'.args[1] <= 0) =>
          /\ call'.err
          /\ hx'.offset = hx.offset
          /\ hx'.offset_b = hx.offset_b
          /\ hx'.reference_unit = hx.reference_unit
          /\ hx'.reference_unit_b = hx.reference_unit_b
          /\ hx'.gain = hx.gain]_vars

(***************************************************************************)
(* Aggregation: read_average applied to a freshly constructed driver, for  *)
(* every sample count up to MaxTimes and every sequence of conversions     *)
(***************************************************************************)
Call_read_average(T, Ws) ==
    /\ call.op = "__init__"
    /\ \E times \in T :
       \E p \in {World(Probe)} : \E ins \in InputsFrom(read_average(p, times), Ws) :
       \E w0 \in {World(ins)} : \E w \in {read_average(w0, times)} :
           /\ Commit(w, "read_average", <<times>>)
           /\ UNCHANGED setting

NextAvg ==
    \/ Call_read_average((0 - 1)..MaxTimes, Words)
    \/ Call_read_average({LongTimes}, CalWords)

SpecAvg == InitDefault /\ [][NextAvg]_vars

\* the signed value of a 24-bit two's-complement word
Signed(word) == IF word >= 8388608 THEN word - 16777216 ELSE word

\* the samples of the acquisitions of the last call, in the order delivered
Samples == [i \in 1..Len(call.acqs) |-> Signed(call.acqs[i].word)]

\* the k-th smallest element of l, counted with repetitions
Nth(l, k) ==
    CHOOSE v \in {l[i] : i \in 1..Len(l)} :
        /\ Cardinality({i \in 1..Len(l) : l[i] < v}) < k
        /\ k <= Cardinality({i \in 1..Len(l) : l[i] <= v})

\* the sum of the from-th to the to-th smallest elements of l
RECURSIVE Total(_, _, _)
Total(l, from, to) == IF from > to THEN 0 ELSE Nth(l, from) + Total(l, from + 1, to)

\* the fraction r equals total / count
IsQuotient(r, total, count) == count > 0 /\ r.d > 0 /\ r.n * count = total * r.d

\* C10: read_average(times) with times >= 1 makes exactly times acquisitions,
\* all returned to it, and returns the sample for times = 1, the median for
\* times in 2..4 (middle element of the sorted samples for odd times, mean of
\* the two middle ones for even times) and for times >= 5 the mean of the
\* sorted samples without the floor(times * 0.2) smallest and largest, of
\* which at least one is left.
C10_ReadAverage ==
    (call.op = "read_average" /\ call.args[1] >= 1) =>
        LET times == call.args[1]
            trim == times \div 5
        IN  /\ ~call.err
            /\ Len(call.acqs) = times
            /\ \A i \in 1..times : call.acqs[i].used
            /\ times = 1 => call.ret = [n |-> Samples[1], d |-> 1]
            /\ (times \in 2..4 /\ times % 2 = 1) =>
                   call.ret = [n |-> Nth(Samples, (times + 1) \div 2), d |-> 1]
            /\ (times \in 2..4 /\ times % 2 = 0) =>
                   IsQuotient(call.ret, Total(Samples, times \div 2, (times \div 2) + 1), 2)
            /\ times >= 5 =>
                   /\ times - 2 * trim >= 1
                   /\ IsQuotient(call.ret, Total(Samples, trim + 1, times - trim),
                                 times - 2 * trim)

\* a trimmed mean of five samples whose smallest and largest are not the mean
C10_Witness ==
    /\ call.op = "read_average"
    /\ call.args[1] = 5
    /\ ~call.err
    /\ Samples = <<1193046, 5, 0 - 1, 5, 5>>
    /\ call.ret = [n |-> 5, d |-> 1]

(***************************************************************************)
(* Threads: the methods that touch the lines, statement by statement.      *)
(* thread[t].pc names the statement thread t executes next:                *)
(*   rrb_acquire, rrb_poll, bit_rise, bit_fall, bit_sample, rrb_release    *)
(*       read_raw_bytes with read_next_byte and read_next_bit inlined      *)
(*   sg_assign, sg_low                  set_gain, then read_raw_bytes      *)
(*   pd_acquire, pd_low, pd_high, pd_sleep, pd_release      power_down     *)
(*   pu_acquire, pu_low, pu_sleep, pu_release, pu_check     power_up       *)
(* i counts the clock pulses of the acquisition, k is range(self.gain).    *)
(* A poll of is_ready() that finds DOUT high changes nothing and is left   *)
(* to stuttering; a conversion becomes ready while a thread polls.         *)
(***************************************************************************)
\* thread u has issued the first clock pulse of an acquisition and has not
\* yet taken the sample that follows its last one
Inside(u) ==
    \/ thread[u].pc \in {"bit_fall", "bit_sample"}
    \/ thread[u].pc = "bit_rise" /\ thread[u].i > 0

\* thread u is between the acquire and the release of read_raw_bytes
Acquiring(u) ==
    thread[u].pc \in {"rrb_poll", "bit_rise", "bit_fall", "bit_sample", "rrb_release"}

\* thread t writes PD_SCK ("high", "low") or samples DOUT ("sample")
Access(t, kind) ==
    line' = [pulses |-> IF kind = "high" THEN line.pulses + 1 ELSE line.pulses,
             by |-> t, kind |-> kind, held |-> hx.read_lock = t,
             during |-> {u \in Threads \ {t} : Inside(u)}]

\* GPIO.output(self.pd_sck, level) by thread t
Output(t, level) ==
    \E w \in {GPIO_output([chip |-> chip, pd_sck |-> pd_sck], level)} :
        /\ chip' = w.chip
        /\ pd_sck' = w.pd_sck
        /\ Access(t, IF level THEN "high" ELSE "low")

Goto(t, pc) == thread' = [thread EXCEPT ![t].pc = pc]

\* thread t enters a method; limit is the number of calls a thread may make
Begin(t, op, arg, pc, limit) ==
    /\ thread[t].pc = "idle"
    /\ thread[t].calls < limit
    /\ thread' = [thread EXCEPT ![t] =
           [IdleThread EXCEPT !.pc = pc, !.op = op, !.k = arg, !.calls = thread[t].calls]]

\* the method thread t is in returns: to its caller in the driver, or out
\* of the driver
Return(t, ret) ==
    thread' = [thread EXCEPT ![t] =
        IF thread[t].stack = <<>>
        THEN [IdleThread EXCEPT !.ret = ret, !.calls = thread[t].calls + 1]
        ELSE [thread[t] EXCEPT !.pc = Head(thread[t].stack),
                               !.stack = Tail(thread[t].stack),
                               !.ret = ret, !.i = 0, !.k = 0,
                               !.byte_value = 0, !.bytes = <<>>]]

\* thread t calls a method that starts at pc and resumes at back afterwards
Invoke(t, pc, arg, back) ==
    thread' = [thread EXCEPT ![t].pc = pc, ![t].k = arg,
                             ![t].stack = <<back>> \o thread[t].stack]

\* self.read_lock.acquire() that does not wait for the lock and does not take it
read_lock_acquire_skipped(t, pc) ==
    /\ hx' = hx
    /\ Goto(t, pc)

\* self.read_lock.acquire(): blocks while the lock is held
read_lock_acquire(t, pc) ==
    /\ hx.read_lock = 0
    /\ hx' = [hx EXCEPT !.read_lock = t]
    /\ Goto(t, pc)

\* self.read_lock.release() that leaves the lock held
read_lock_release_kept == hx' = hx

\* self.read_lock.release()
read_lock_release == hx' = [hx EXCEPT !.read_lock = 0]

\* the loop of read_raw_bytes without the pulses after the 24 data bits
AfterBit_no_extra(self, value, h) ==
    LET i == self.i + 1
        byte_value == ByteStep(self.byte_value, value, h.bit_format)
        full == i % 8 = 0
    IN  [self EXCEPT !.i = i,
                     !.byte_value = IF full THEN 0 ELSE byte_value,
                     !.bytes = IF full THEN Append(self.bytes, byte_value) ELSE self.bytes,
                     !.pc = IF i >= 24 THEN "rrb_release" ELSE "bit_rise"]

\* the locals of read_raw_bytes after read_next_bit returned value
AfterBit(self, value, h) ==
    LET i == self.i + 1
        byte_value == IF i <= 24 THEN ByteStep(self.byte_value, value, h.bit_format)
                      ELSE self.byte_value
        k == IF i = 24 THEN h.gain ELSE self.k
        full == i <= 24 /\ i % 8 = 0
    IN  [self EXCEPT !.i = i,
                     !.k = k,
                     !.byte_value = IF full THEN 0 ELSE byte_value,
                     !.bytes = IF full THEN Append(self.bytes, byte_value) ELSE self.bytes,
                     !.pc = IF i >= 24 /\ i >= 24 + k THEN "rrb_release" ELSE "bit_rise"]

Begin_read_raw_bytes(limit) ==
    \E t \in Threads :
        /\ Begin(t, "read_raw_bytes", 0, "rrb_acquire", limit)
        /\ UNCHANGED <<hx, chip, pd_sck, call, setting, emu, line>>

Read_acquire ==
    \E t \in Threads :
        /\ thread[t].pc = "rrb_acquire"
        /\ read_lock_acquire(t, "rrb_poll")
        /\ UNCHANGED <<chip, pd_sck, call, setting, emu, line>>

\* while not self.is_ready(): pass, the conversion that becomes ready being
\* one of Ws
Poll(Ws) ==
    \E t \in Threads :
        /\ thread[t].pc = "rrb_poll"
        /\ Access(t, "sample")
        /\ IF chip.on
           THEN \E word \in Ws :
                    /\ chip' = ChipReady(chip, word)
                    /\ Goto(t, "bit_rise")
           ELSE UNCHANGED <<chip, thread>>
        /\ UNCHANGED <<hx, pd_sck, call, setting, emu>>

Read_poll == Poll(CalWords)

\* the poll of a chip whose input does not change
Read_poll_steady == Poll({chip.word})

\* read_next_bit: GPIO.output(self.pd_sck, True)
Bit_rise ==
    \E t \in Threads :
        /\ thread[t].pc = "bit_rise"
        /\ Output(t, TRUE)
        /\ Goto(t, "bit_fall")
        /\ UNCHANGED <<hx, call, setting, emu>>

\* read_next_bit: GPIO.output(self.pd_sck, False)
Bit_fall ==
    \E t \in Threads :
        /\ thread[t].pc = "bit_fall"
        /\ Output(t, FALSE)
        /\ Goto(t, "bit_sample")
        /\ UNCHANGED <<hx, call, setting, emu>>

\* read_next_bit: value = GPIO.input(self.dout), and the loop around it
Bit_sample ==
    \E t \in Threads :
        /\ thread[t].pc = "bit_sample"
        /\ Access(t, "sample")
        /\ \E r \in {AfterBit(thread[t], ChipDout(chip), hx)} :
               thread' = [thread EXCEPT ![t] = r]
        /\ UNCHANGED <<hx, chip, pd_sck, call, setting, emu>>

Read_release ==
    \E t \in Threads :
        /\ thread[t].pc = "rrb_release"
        /\ read_lock_release
        /\ Return(t, IF /\ thread[t].op # "read_raw_bytes"
                         /\ ~(thread[t].stack # <<>> /\ Head(thread[t].stack) = "rl_convert")
                      THEN None
                     ELSE IF hx.byte_format = LSB
                          THEN PyList(<<thread[t].bytes[3], thread[t].bytes[2], thread[t].bytes[1]>>)
                          ELSE PyList(thread[t].bytes))
        /\ UNCHANGED <<chip, pd_sck, call, setting, emu, line>>

Begin_set_gain ==
    \E t \in Threads : \E gain \in GainArgs :
        /\ Begin(t, "set_gain", gain, "sg_assign", MaxCalls)
        /\ UNCHANGED <<hx, chip, pd_sck, call, setting, emu, line>>

Gain_assign ==
    \E t \in Threads :
        /\ thread[t].pc = "sg_assign"
        /\ hx' = [hx EXCEPT !.gain = GainCode(hx.gain, thread[t].k)]
        /\ Goto(t, "sg_low")
        /\ UNCHANGED <<chip, pd_sck, call, setting, emu, line>>

\* GPIO.output(self.pd_sck, False), then self.read_raw_bytes()
Gain_low ==
    \E t \in Threads :
        /\ thread[t].pc = "sg_low"
        /\ Output(t, FALSE)
        /\ thread' = [thread EXCEPT ![t].pc = "rrb_acquire", ![t].k = 0]
        /\ UNCHANGED <<hx, call, setting, emu>>

Begin_power_down ==
    \E t \in Threads :
        /\ Begin(t, "power_down", 0, "pd_acquire", MaxCalls)
        /\ UNCHANGED <<hx, chip, pd_sck, call, setting, emu, line>>

Down_acquire ==
    \E t \in Threads :
        /\ thread[t].pc = "pd_acquire"
        /\ read_lock_acquire(t, "pd_low")
        /\ UNCHANGED <<chip, pd_sck, call, setting, emu, line>>

Down_low ==
    \E t \in Threads :
        /\ thread[t].pc = "pd_low"
        /\ Output(t, FALSE)
        /\ Goto(t, "pd_high")
        /\ UNCHANGED <<hx, call, setting, emu>>

Down_high ==
    \E t \in Threads :
        /\ thread[t].pc = "pd_high"
        /\ Output(t, TRUE)
        /\ Goto(t, "pd_sleep")
        /\ UNCHANGED <<hx, call, setting, emu>>

\* time.sleep(0.0001): the chip powers down if PD_SCK stayed high
Down_sleep ==
    \E t \in Threads :
        /\ thread[t].pc = "pd_sleep"
        /\ chip' = IF pd_sck THEN ChipPowerDown(chip) ELSE chip
        /\ Goto(t, "pd_release")
        /\ UNCHANGED <<hx, pd_sck, call, setting, emu, line>>

Down_release ==
    \E t \in Threads :
        /\ thread[t].pc = "pd_release"
        /\ read_lock_release
        /\ Return(t, None)
        /\ UNCHANGED <<chip, pd_sck, call, setting, emu, line>>

Begin_power_up ==
    \E t \in Threads :
        /\ Begin(t, "power_up", 0, "pu_acquire", MaxCalls)
        /\ UNCHANGED <<hx, chip, pd_sck, call, setting, emu, line>>

Up_acquire ==
    \E t \in Threads :
        /\ thread[t].pc = "pu_acquire"
        /\ read_lock_acquire(t, "pu_low")
        /\ UNCHANGED <<chip, pd_sck, call, setting, emu, line>>

Up_low ==
    \E t \in Threads :
        /\ thread[t].pc = "pu_low"
        /\ Output(t, FALSE)
        /\ Goto(t, "pu_sleep")
        /\ UNCHANGED <<hx, call, setting, emu>>

\* time.sleep(0.0001), then self.read_lock.release()
Up_release ==
    \E t \in Threads :
        /\ thread[t].pc = "pu_sleep"
        /\ read_lock_release
        /\ Goto(t, "pu_check")
        /\ UNCHANGED <<chip, pd_sck, call, setting, emu, line>>

\* if self.get_gain() != 128: self.read_raw_bytes()
Up_check ==
    \E t \in Threads :
        /\ thread[t].pc = "pu_check"
        /\ IF get_gain(hx) # 128 THEN Goto(t, "rrb_acquire") ELSE Return(t, None)
        /\ UNCHANGED <<hx, chip, pd_sck, call, setting, emu, line>>

(***************************************************************************)
(* Concurrent read_raw_bytes: every thread calls it once                   *)
(***************************************************************************)
InitValid == Init /\ ValidGain(call.args[1])

NextRead ==
    \/ Begin_read_raw_bytes(1)
    \/ Read_acquire
    \/ Read_poll
    \/ Bit_rise
    \/ Bit_fall
    \/ Bit_sample
    \/ Read_release

SpecRead == InitValid /\ [][NextRead]_vars

AllReturned == \A t \in Threads : thread[t].pc = "idle" /\ thread[t].calls = 1

\* C1: with every thread calling read_raw_bytes once under a pulse-count
\* code g in {1,2,3}, no call writes the clock or samples the data line
\* between the first and the last clock pulse of another call, at most one
\* call is between its acquire and its release, and once all calls have
\* returned the clock has been pulsed exactly N * (24 + g) times.
C1_ReadsExclusive ==
    /\ line.during = {}
    /\ Cardinality({t \in Threads : Acquiring(t)}) <= 1
    /\ AllReturned => line.pulses = NThreads * (24 + hx.gain)

\* all calls returned under code 3, after the last thread waited for the lock
C1_Witness ==
    /\ AllReturned
    /\ hx.gain = 3
    /\ line.pulses = NThreads * 27
    /\ \A t \in Threads : Len(thread[t].ret.v) = 3

(***************************************************************************)
(* Concurrent mix of the operations that touch the lines                   *)
(***************************************************************************)
NextConc ==
    \/ Begin_read_raw_bytes(MaxCalls)
    \/ Read_acquire
    \/ Read_poll
    \/ Bit_rise
    \/ Bit_fall
    \/ Bit_sample
    \/ Read_release
    \/ Begin_set_gain
    \/ Gain_assign
    \/ Gain_low
    \/ Begin_power_down
    \/ Down_acquire
    \/ Down_low
    \/ Down_high
    \/ Down_sleep
    \/ Down_release
    \/ Begin_power_up
    \/ Up_acquire
    \/ Up_low
    \/ Up_release
    \/ Up_check

SpecConc == InitDefault /\ [][NextConc]_vars

\* C2: every write of PD_SCK and every sample of DOUT made after
\* construction is made by a thread that holds read_lock at that moment.
C2_LineAccessLocked == line.held

(***************************************************************************)
(* Values and weights of channel A: the setters first, then one reading    *)
(* call on the driver they left                                            *)
(***************************************************************************)
\* offsets given to the setters: an int and a float that is not an int
OffsetArgs == {Num(3), [n |-> 1, d |-> 2]}

\* the calls that leave the chip and last_val as the constructor left them
SetupOps == {"__init__", "set_offset", "set_offset_a", "set_offset_b",
             "set_reference_unit", "set_reference_unit_a", "set_reference_unit_b"}

Call_set_offset ==
    /\ call.op \in SetupOps
    /\ \E offset \in OffsetArgs :
       \E w0 \in {World(<<>>)} : \E w \in {set_offset(w0, offset)} :
           /\ Commit(w, "set_offset", <<offset>>)
           /\ UNCHANGED setting

Call_set_unit ==
    /\ call.op \in SetupOps
    /\ Call_set_reference_unit

Call_get_value(T, Ws) ==
    /\ call.op \in SetupOps
    /\ \E times \in T : \E p \in {World(Probe)} : \E ins \in InputsFrom(get_value(p, times), Ws) :
       \E w0 \in {World(ins)} : \E w \in {get_value(w0, times)} :
           /\ Commit(w, "get_value", <<times>>)
           /\ UNCHANGED setting

Call_get_value_a(T, Ws) ==
    /\ call.op \in SetupOps
    /\ \E times \in T : \E p \in {World(Probe)} : \E ins \in InputsFrom(get_value_a(p, times), Ws) :
       \E w0 \in {World(ins)} : \E w \in {get_value_a(w0, times)} :
           /\ Commit(w, "get_value_a", <<times>>)
           /\ UNCHANGED setting

Call_get_weight(T, Ws) ==
    /\ call.op \in SetupOps
    /\ \E times \in T : \E p \in {World(Probe)} : \E ins \in InputsFrom(get_weight(p, times), Ws) :
       \E w0 \in {World(ins)} : \E w \in {get_weight(w0, times)} :
           /\ Commit(w, "get_weight", <<times>>)
           /\ UNCHANGED setting

Call_get_weight_A(T, Ws) ==
    /\ call.op \in SetupOps
    /\ \E times \in T : \E p \in {World(Probe)} : \E ins \in InputsFrom(get_weight_A(p, times), Ws) :
       \E w0 \in {World(ins)} : \E w \in {get_weight_A(w0, times)} :
           /\ Commit(w, "get_weight_A", <<times>>)
           /\ UNCHANGED setting

\* get_value and get_weight on the chip delivering the word it delivered last
Call_get_value_after(T) ==
    \E times \in T : \E p \in {World(Probe)} :
    \E ins \in InputsFrom(get_value(p, times), {chip.word}) :
    \E w0 \in {World(ins)} : \E w \in {get_value(w0, times)} :
        /\ Commit(w, "get_value", <<times>>)
        /\ UNCHANGED setting

Call_get_weight_after(T) ==
    \E times \in T : \E p \in {World(Probe)} :
    \E ins \in InputsFrom(get_weight(p, times), {chip.word}) :
    \E w0 \in {World(ins)} : \E w \in {get_weight(w0, times)} :
        /\ Commit(w, "get_weight", <<times>>)
        /\ UNCHANGED setting

\* sample counts of the calls that go by another name of the same method
AliasTimes == {0, 2, 5}

NextVal ==
    \/ Call_set_offset
    \/ Call_set_unit
    \/ Call_get_value(0..MaxTimes, CalWords)
    \/ Call_get_weight(0..MaxTimes, CalWords)
    \/ Call_get_value_a(AliasTimes, CalWords)
    \/ Call_get_weight_A(AliasTimes, CalWords)

SpecVal == InitDefault /\ [][NextVal]_vars

\* the fraction r equals (total / count - offset) / unit
IsValue(r, total, count, offset, unit) ==
    /\ r.d > 0
    /\ r.n * count * offset.d * unit = r.d * (total * offset.d - offset.n * count)

\* rank of the lower and of the upper middle element among n sorted samples
MidLow(n) == (n + 1) \div 2
MidHigh(n) == (n \div 2) + 1

\* ranks of the first and the last sample the SampleAggregator rule keeps
KeepLow(n) == IF n < 5 THEN MidLow(n) ELSE (n \div 5) + 1
KeepHigh(n) == IF n < 5 THEN MidHigh(n) ELSE n - (n \div 5)

ValueOps == {"get_value", "get_value_a"}
WeightOps == {"get_weight", "get_weight_A"}

Call_set_unit_b ==
    /\ call.op \in SetupOps
    /\ Call_set_reference_unit_b

Setup_tare(T, Ws) == call.op \in SetupOps /\ Call_tare(T, Ws)

Setup_tare_a(T, Ws) == call.op \in SetupOps /\ Call_tare_a(T, Ws)

Setup_tare_B(T, Ws) == call.op \in SetupOps /\ Call_tare_B(T, Ws)

\* sample counts given to tare_B: one sample, a median, a trimmed mean
TareBTimes == {1, 2, 5}

NextTare ==
    \/ Call_set_unit
    \/ Call_set_unit_b
    \/ Setup_tare(1..MaxTimes, CalWords)
    \/ Setup_tare_a(AliasTimes, CalWords)
    \/ Setup_tare_B(TareBTimes, CalWords)

SpecTare == InitDefault /\ [][NextTare]_vars

IsUsed(a) == a.used

\* the samples the last call's read_long calls returned, in order
UsedSamples(c) ==
    LET used == SelectSeq(c.acqs, IsUsed)
    IN  [i \in 1..Len(used) |-> Signed(used[i].word)]

\* C12: tare(times) and tare_a(times) with times >= 1 return the value that
\* read_average's rule gives for the times samples read, store it as the
\* channel-A offset and leave the channel-A reference unit as it was before
\* the call; tare_B(times) does so for the channel-B offset and unit.
C12_TareStoresAggregate ==
    [][(call'.op \in {"tare", "tare_a", "tare_B"} /\ call'.args[1] >= 1) =>
          LET n == call'.args[1]
              l == UsedSamples(call')
          IN  /\ ~call'.err
              /\ Len(l) = n
              /\ IsValue(call'.ret, Total(l, KeepLow(n), KeepHigh(n)),
                         KeepHigh(n) - KeepLow(n) + 1, Num(0), 1)
              /\ IF call'.op = "tare_B"
                 THEN /\ get_offset_b(hx') = call'.ret
                      /\ get_reference_unit_b(hx') = get_reference_unit_b(hx)
                 ELSE /\ get_offset_a(hx') = call'.ret
                      /\ get_reference_unit_a(hx') = get_reference_unit_a(hx)]_vars

\* tare_B(5) returned the trimmed mean 3 of its samples and stored it, with
\* the channel-B reference unit 2 set before the call still in place
C12_Witness ==
    /\ call.op = "tare_B"
    /\ call.args = <<5>>
    /\ UsedSamples(call) = <<5, 0 - 1, 5, 0 - 1, 5>>
    /\ call.ret = Num(3)
    /\ hx.offset_b = Num(3)
    /\ hx.reference_unit_b = 2

(***************************************************************************)
(* A steady load: every conversion delivers the word of the first one.     *)
(* The setters, then tare(n), then one get_value(m) or get_weight(m).      *)
(***************************************************************************)
\* the word the chip delivered last
Steady == {chip.word}

Steady_tare(T) == call.op \in SetupOps /\ Call_tare(T, Steady)

Steady_get_value(T) == call.op = "tare" /\ Call_get_value_after(T)

Steady_get_weight(T) == call.op = "tare" /\ Call_get_weight_after(T)

NextSteady ==
    \/ Call_set_offset
    \/ Call_set_unit
    \/ Steady_tare(1..MaxTimes)
    \/ Steady_get_value(1..MaxTimes)
    \/ Steady_get_weight(1..MaxTimes)

SpecSteady == InitDefault /\ [][NextSteady]_vars

\* C13: with the chip delivering the same word for every read, get_value(m)
\* and get_weight(m) called right after tare(n) return exactly 0, for all
\* n >= 1 and m >= 1, whatever the offset and the reference unit were.
C13_TareThenZero ==
    [][(/\ call.op = "tare" /\ call.args[1] >= 1
        /\ call'.op \in {"get_value", "get_weight"} /\ call'.args[1] >= 1) =>
          /\ ~call'.err
          /\ call'.ret = Num(0)]_vars

\* get_weight(4) returned 0 after a tare that replaced the offset 3 by the
\* steady sample, under reference unit 2
C13_Witness ==
    /\ call.op = "get_weight"
    /\ call.args = <<4>>
    /\ call.ret = Num(0)
    /\ hx.offset = Num(1193046)
    /\ hx.reference_unit = 2
    /\ UsedSamples(call) = <<1193046, 1193046, 1193046, 1193046>>

(***************************************************************************)
(* Channel B: a driver constructed with a recognised gain, set_gain calls, *)
(* then one channel-B call                                                 *)
(***************************************************************************)
GainOps == {"__init__", "set_gain"}

Setup_set_gain == call.op \in GainOps /\ Call_set_gain

Setup_get_value_b(T, Ws) ==
    /\ call.op \in GainOps
    /\ \E times \in T : \E p \in {World(Probe)} : \E ins \in InputsFrom(get_value_b(p, times), Ws) :
       \E w0 \in {World(ins)} : \E w \in {get_value_b(w0, times)} :
           /\ Commit(w, "get_value_b", <<times>>)
           /\ setting' = 0

Setup_get_weight_B(T, Ws) ==
    /\ call.op \in GainOps
    /\ \E times \in T : \E p \in {World(Probe)} : \E ins \in InputsFrom(get_weight_B(p, times), Ws) :
       \E w0 \in {World(ins)} : \E w \in {get_weight_B(w0, times)} :
           /\ Commit(w, "get_weight_B", <<times>>)
           /\ setting' = 0

Setup_gain_tare_B(T, Ws) == call.op \in GainOps /\ Call_tare_B(T, Ws)

\* sample counts given to the channel-B calls
ChanBTimes == {1, 2, 3}

NextChanB ==
    \/ Setup_set_gain
    \/ Setup_get_value_b(ChanBTimes, CalWords)
    \/ Setup_get_weight_B(ChanBTimes, CalWords)
    \/ Setup_gain_tare_B(ChanBTimes, CalWords)

SpecChanB == InitValid /\ [][NextChanB]_vars

\* the selection the chip will make its next conversion under
ChipNext(c) == IF c.n >= 24 THEN ChipSelect(c.n - 24) ELSE c.sel

ChanBOps == {"get_value_b", "get_weight_B", "tare_B"}

\* C14: called with times >= 1 while get_gain() is 128, 64 or 32,
\* get_value_b, get_weight_B and tare_B first make a discarded acquisition
\* that sends the 2 pulses of channel B, then read times samples, each
\* converted on channel B, then make a discarded acquisition that sends the
\* pulses of the gain in force before the call; on return get_gain() is as
\* before the call and the chip's next conversion is selected for it.
C14_ChannelBSwitch ==
    [][(/\ call'.op \in ChanBOps /\ call'.args[1] >= 1
        /\ get_gain(hx) \in {128, 64, 32}) =>
          LET a == call'.acqs
              n == call'.args[1]
          IN  /\ ~call'.err
              /\ Len(a) = n + 2
              /\ ~a[1].used /\ a[1].extra = 2
              /\ \A i \in 2..(n + 1) : a[i].used /\ a[i].cur = 2 /\ a[i].extra = 2
              /\ ~a[n + 2].used /\ a[n + 2].extra = CodeOf(get_gain(hx))
              /\ get_gain(hx') = get_gain(hx)
              /\ ChipNext(chip') = CodeOf(get_gain(hx))]_vars

\* get_weight_B(3) returned on a driver set to gain 64: three samples of
\* channel B, and the chip selected for gain 64 again
C14_Witness ==
    /\ call.op = "get_weight_B"
    /\ call.args = <<3>>
    /\ ~call.err
    /\ get_gain(hx) = 64
    /\ ChipNext(chip) = 3
    /\ Len(call.acqs) = 5
    /\ \A i \in 2..4 : call.acqs[i].used /\ call.acqs[i].cur = 2

(***************************************************************************)
(* Power: set-up calls, power_down, power_up, reset and read_long          *)
(***************************************************************************)
Call_reset ==
    \E p \in {World(Probe)} : \E ins \in InputsFrom(reset(p), CalWords) :
    \E w0 \in {World(ins)} : \E w \in {reset(w0)} :
        /\ Commit(w, "reset", <<>>)
        /\ setting' = 0

Setup_gain ==
    /\ call.op \in SetupOps
    /\ \E gain \in GainArgs : \E p \in {World(Probe)} :
       \E ins \in InputsFrom(set_gain(p, gain), CalWords) :
       \E w0 \in {World(ins)} : \E w \in {set_gain(w0, gain)} :
           /\ Commit(w, "set_gain", <<gain>>)
           /\ setting' = IF ValidGain(gain) THEN gain ELSE 0

Read_one ==
    \E p \in {World(Probe)} : \E ins \in InputsFrom(read_long(p), CalWords) :
    \E w0 \in {World(ins)} : \E w \in {read_long(w0)} :
        /\ Commit(w, "read_long", <<>>)
        /\ UNCHANGED setting

NextPower ==
    \/ Call_set_offset
    \/ Call_set_unit
    \/ Setup_gain
    \/ Call_power_down
    \/ Call_power_up
    \/ Call_reset
    \/ Read_one

SpecPower == Init /\ [][NextPower]_vars

\* C15: power_up, alone or as the second half of reset, makes exactly one
\* acquisition, discarded, when get_gain() is not 128 and none when it is;
\* reset leaves the gain, the offsets and the reference units as they were;
\* and the sample the next read_long returns was converted under the
\* selection of get_gain(), where get_gain() is one of 128, 64, 32.
C15_ResetResynchronises ==
    [][/\ call'.op \in {"power_up", "reset"} =>
             /\ ~call'.err
             /\ Len(call'.acqs) = IF get_gain(hx) # 128 THEN 1 ELSE 0
             /\ \A i \in 1..Len(call'.acqs) : ~call'.acqs[i].used
       /\ call'.op = "reset" =>
             /\ hx'.gain = hx.gain
             /\ hx'.offset = hx.offset /\ hx'.offset_b = hx.offset_b
             /\ hx'.reference_unit = hx.reference_unit
             /\ hx'.reference_unit_b = hx.reference_unit_b
       /\ (/\ call.op \in {"power_up", "reset"} /\ call'.op = "read_long"
           /\ get_gain(hx) \in {128, 64, 32}) =>
             /\ Len(call'.acqs) = 1
             /\ call'.acqs[1].used
             /\ call'.acqs[1].cur = CodeOf(get_gain(hx))]_vars

\* reset returned on a driver set to gain 64 with offset 3: the conversion
\* power_up discarded was made under gain 128, the next one is under gain 64
C15_Witness ==
    /\ call.op = "reset"
    /\ get_gain(hx) = 64
    /\ hx.offset = Num(3)
    /\ Len(call.acqs) = 1
    /\ call.acqs[1].cur = 1
    /\ ChipNext(chip) = 3

(***************************************************************************)
(* The simulated driver's encoder and the decoder, applied to integers     *)
(* around the ends of the 24-bit range, around 0 and far outside the range *)
(***************************************************************************)
\* how far around each corner value the arguments reach
ConvSpan == 3

ConvCorners == {0 - 100000000, 0 - 8388608, 0 - 1193046, 0, 1193046, 8388607, 100000000}

ConvArgs == {c + d : c \in ConvCorners, d \in (0 - ConvSpan)..ConvSpan}

Call_convert_to ==
    \E x \in ConvArgs :
        /\ call' = [op |-> "convert_to_twos_complement_24_bit", args |-> <<x>>,
                    err |-> FALSE, ret |-> convert_to_twos_complement_24_bit(x),
                    acqs |-> <<>>, pulses |-> 0]
        /\ UNCHANGED <<hx, chip, pd_sck, setting, emu, thread, line>>

Call_convert_from ==
    /\ call.op = "convert_to_twos_complement_24_bit"
    /\ call' = [op |-> "convert_from_twos_complement_24_bit", args |-> <<call.ret>>,
                err |-> FALSE, ret |-> convert_from_twos_complement_24_bit(call.ret),
                acqs |-> <<>>, pulses |-> 0]
    /\ UNCHANGED <<hx, chip, pd_sck, setting, emu, thread, line>>

NextConv ==
    \/ Call_convert_to
    \/ Call_convert_from

SpecConv == InitDefault /\ [][NextConv]_vars

\* x limited to the 24-bit two's-complement range
Clamp24(x) == IF x < 0 - 8388608 THEN 0 - 8388608 ELSE IF x > 8388607 THEN 8388607 ELSE x

\* C16: the encoding of every integer x is in 0..0xFFFFFF, and decoding it
\* gives x limited to -0x800000..0x7FFFFF: x itself inside the range, the
\* nearer end of the range outside it.
C16_EncodeDecode ==
    [][/\ call'.op = "convert_to_twos_complement_24_bit" => call'.ret \in 0..16777215
       /\ (/\ call.op = "convert_to_twos_complement_24_bit"
           /\ call'.op = "convert_from_twos_complement_24_bit") =>
             /\ call'.args = <<call.ret>>
             /\ call'.ret = Clamp24(call.args[1])]_vars

\* an integer below the range encoded as the word of -0x800000
C16_Witness ==
    /\ call.op = "convert_to_twos_complement_24_bit"
    /\ call.args = <<0 - 8388610>>
    /\ call.ret = 8388608
    /\ convert_from_twos_complement_24_bit(call.ret) = 0 - 8388608

(***************************************************************************)
(* The two drivers side by side: each call is made on both, the simulated  *)
(* one generating the samples the chip delivers to the hardware-backed one *)
(***************************************************************************)
\* the values generate_fake_sample returns for the conversions in ins
FakeSamples(ins) == [i \in 1..Len(ins) |-> Signed(ins[i])]

\* the simulated driver after the call that ended in world e
CommitEmulated(e) ==
    /\ ~e.hang /\ ~e.starved
    /\ emu' = [hx |-> e.hx, ret |-> e.ret, err |-> e.err]

Both_set_offset ==
    /\ call.op \in SetupOps
    /\ \E offset \in OffsetArgs :
       \E w \in {set_offset(World(<<>>), offset)} :
       \E e \in {emulated_set_offset(EmulatedWorld(emu.hx, <<>>), offset)} :
           /\ CommitDriver(w, "set_offset", <<offset>>)
           /\ CommitEmulated(e)
           /\ UNCHANGED setting

Both_set_reference_unit ==
    /\ call.op \in SetupOps
    /\ \E reference_unit \in RefArgs :
       \E w \in {set_reference_unit(World(<<>>), reference_unit)} :
       \E e \in {emulated_set_reference_unit(EmulatedWorld(emu.hx, <<>>), reference_unit)} :
           /\ CommitDriver(w, "set_reference_unit", <<reference_unit>>)
           /\ CommitEmulated(e)
           /\ UNCHANGED setting

Both_get_value(T, Ws) ==
    /\ call.op \in SetupOps
    /\ \E times \in T : \E p \in {World(Probe)} : \E ins \in InputsFrom(get_value(p, times), Ws) :
       \E w \in {get_value(World(ins), times)} :
       \E e \in {emulated_get_value(EmulatedWorld(emu.hx, FakeSamples(ins)), times)} :
           /\ CommitDriver(w, "get_value", <<times>>)
           /\ CommitEmulated(e)
           /\ UNCHANGED setting

Both_get_weight(T, Ws) ==
    /\ call.op \in SetupOps
    /\ \E times \in T : \E p \in {World(Probe)} : \E ins \in InputsFrom(get_weight(p, times), Ws) :
       \E w \in {get_weight(World(ins), times)} :
       \E e \in {emulated_get_weight(EmulatedWorld(emu.hx, FakeSamples(ins)), times)} :
           /\ CommitDriver(w, "get_weight", <<times>>)
           /\ CommitEmulated(e)
           /\ UNCHANGED setting

Both_tare(T, Ws) ==
    /\ call.op \in SetupOps
    /\ \E times \in T : \E p \in {World(Probe)} : \E ins \in InputsFrom(tare(p, times), Ws) :
       \E w \in {tare(World(ins), times)} :
       \E e \in {emulated_tare(EmulatedWorld(emu.hx, FakeSamples(ins)), times)} :
           /\ CommitDriver(w, "tare", <<times>>)
           /\ CommitEmulated(e)
           /\ UNCHANGED setting

NextBoth ==
    \/ Both_set_offset
    \/ Both_set_reference_unit
    \/ Both_get_value(1..MaxTimes, CalWords)
    \/ Both_get_weight(1..MaxTimes, CalWords)
    \/ Both_tare(1..MaxTimes, CalWords)

SpecBoth == InitDefault /\ [][NextBoth]_vars

\* C17: made on both drivers with the same offset, reference unit, reading
\* format and samples, get_value(times) and get_weight(times) with
\* times >= 1 return the same value, and tare(times) returns the same value
\* and leaves the same offset.
C17_DriversAgree ==
    (call.op \in {"get_value", "get_weight", "tare"} /\ call.args[1] >= 1) =>
        /\ emu.err = call.err
        /\ emu.ret = call.ret
        /\ emu.hx.offset = hx.offset

(***************************************************************************)
(* The course of one acquisition                                           *)
(***************************************************************************)
\* the three bytes of a 24-bit word, most significant first
WordBytes(word) == <<word \div 65536, (word \div 256) % 256, word % 256>>

\* C18: in every read_raw_bytes call, the first clock pulse follows a sample
\* by the same thread that found DOUT low with the lock held; every rising
\* edge follows a sample by the thread and is made from a low clock, every
\* falling edge follows the thread's rising edge, every sample follows the
\* thread's falling edge with the clock low; the samples after the 24th
\* leave the bytes as they are; and the call returns after 24 + g pulses
\* with the bytes of the word converted, the clock low and the lock free.
C18_AcquisitionSequence ==
    [][\A t \in Threads :
          LET a == thread[t]
              b == thread'[t]
          IN  /\ (a.pc = "bit_rise" /\ b.pc = "bit_fall") =>
                    /\ hx.read_lock = t
                    /\ line.by = t /\ line.kind = "sample"
                    /\ a.i = 0 => ChipDout(chip) = 0
                    /\ pd_sck = FALSE /\ pd_sck' = TRUE
                    /\ chip.n < 24 + hx.gain
              /\ (a.pc = "bit_fall" /\ b.pc = "bit_sample") =>
                    /\ hx.read_lock = t
                    /\ line.by = t /\ line.kind = "high"
                    /\ pd_sck = TRUE /\ pd_sck' = FALSE
              /\ (a.pc = "bit_sample" /\ b.pc # "bit_sample") =>
                    /\ hx.read_lock = t
                    /\ line.by = t /\ line.kind = "low"
                    /\ pd_sck = FALSE /\ pd_sck' = FALSE
                    /\ line'.by = t /\ line'.kind = "sample"
                    /\ a.i >= 24 => b.bytes = a.bytes
              /\ (a.pc = "rrb_release" /\ b.pc = "idle") =>
                    /\ chip.n = 24 + hx.gain
                    /\ b.ret = PyList(WordBytes(chip.word))
                    /\ pd_sck' = FALSE
                    /\ hx'.read_lock = 0]_vars

\* a call returned under code 2 after 26 pulses with the bytes of 0xFFFFFF
C18_Witness ==
    \E t \in Threads :
        /\ thread[t].pc = "idle" /\ thread[t].calls = 1
        /\ thread[t].ret = PyList(<<255, 255, 255>>)
        /\ line.by = t /\ line.kind = "sample"
        /\ hx.gain = 2
        /\ chip.n = 26
        /\ chip.word = 16777215
        /\ pd_sck = FALSE
        /\ hx.read_lock = 0

(***************************************************************************)
(* Bit and byte order: set_reading_format calls and read_long on words     *)
(* that tell the orders apart                                              *)
(***************************************************************************)
Read_word ==
    \E p \in {World(Probe)} : \E ins \in InputsFrom(read_long(p), Words \cup BitWords) :
    \E w0 \in {World(ins)} : \E w \in {read_long(w0)} :
        /\ Commit(w, "read_long", <<>>)
        /\ UNCHANGED setting

NextBits ==
    \/ Call_set_reading_format
    \/ Read_word

SpecBits == InitDefault /\ [][NextBits]_vars

\* bit k (0 the lowest) of v
BitOf(v, k) == (v \div (2 ^ k)) % 2

\* the byte with the bits of b in the opposite order
Reversed(b) ==
    BitOf(b, 0) * 128 + BitOf(b, 1) * 64 + BitOf(b, 2) * 32 + BitOf(b, 3) * 16
    + BitOf(b, 4) * 8 + BitOf(b, 5) * 4 + BitOf(b, 6) * 2 + BitOf(b, 7)

\* the value read_long is to return for the 24 bits of word sampled most
\* significant first, under the two formats
Ordered(word, byte_format, bit_format) ==
    LET b == WordBytes(word)
        c == IF bit_format = LSB THEN <<Reversed(b[1]), Reversed(b[2]), Reversed(b[3])>> ELSE b
        d == IF byte_format = LSB THEN <<c[3], c[2], c[1]>> ELSE c
        v == d[1] * 65536 + d[2] * 256 + d[3]
    IN  (v % 8388608) - (IF v >= 8388608 THEN 8388608 ELSE 0)

\* C19: with both formats 'MSB' read_long returns the 24 sampled bits as a
\* two's-complement value, first bit highest; with bit format 'LSB' the bits
\* of each byte are in the opposite order, with byte format 'LSB' the three
\* bytes are; the value is in -0x800000..0x7FFFFF and is stored in last_val.
C19_BitAndByteOrder ==
    (/\ call.op = "read_long"
     /\ hx.byte_format \in {MSB, LSB} /\ hx.bit_format \in {MSB, LSB}) =>
        /\ ~call.err
        /\ Len(call.acqs) = 1
        /\ call.ret = Ordered(call.acqs[1].word, hx.byte_format, hx.bit_format)
        /\ call.ret \in (0 - 8388608)..8388607
        /\ hx.last_val = call.ret

\* 0x0180FE read with both formats 'LSB' as 0x7F0180
C19_Witness ==
    /\ call.op = "read_long"
    /\ hx.byte_format = LSB /\ hx.bit_format = LSB
    /\ call.acqs[1].word = 98558
    /\ call.ret = 8323456

(***************************************************************************)
(* Calibration per channel: a reading format and the six setters, then one *)
(* call that samples on channel A or on channel B                          *)
(***************************************************************************)
\* the formats given to set_reading_format right after construction
ChanFormats == {MSB, LSB}

Chan_set_reading_format ==
    /\ call.op = "__init__"
    /\ \E byte_format \in ChanFormats : \E bit_format \in ChanFormats :
       \E w0 \in {World(<<>>)} : \E w \in {set_reading_format(w0, byte_format, bit_format)} :
           /\ Commit(w, "set_reading_format", <<byte_format, bit_format>>)
           /\ UNCHANGED setting

\* the calls that may precede a setter
ChanSetupOps == SetupOps \cup {"set_reading_format"}

Chan_set_offset == call.op \in ChanSetupOps /\
    \E offset \in OffsetArgs : \E w0 \in {World(<<>>)} : \E w \in {set_offset(w0, offset)} :
        Commit(w, "set_offset", <<offset>>) /\ UNCHANGED setting

Chan_set_offset_a == call.op \in ChanSetupOps /\
    \E offset \in OffsetArgs : \E w0 \in {World(<<>>)} : \E w \in {set_offset_a(w0, offset)} :
        Commit(w, "set_offset_a", <<offset>>) /\ UNCHANGED setting

Chan_set_offset_b == call.op \in ChanSetupOps /\
    \E offset \in OffsetArgs : \E w0 \in {World(<<>>)} : \E w \in {set_offset_b(w0, offset)} :
        Commit(w, "set_offset_b", <<offset>>) /\ UNCHANGED setting

Chan_set_reference_unit == call.op \in ChanSetupOps /\ Call_set_reference_unit

Chan_set_reference_unit_a == call.op \in ChanSetupOps /\ Call_set_reference_unit_a

Chan_set_reference_unit_b == call.op \in ChanSetupOps /\ Call_set_reference_unit_b

Chan_tare(T, Ws) == call.op \in ChanSetupOps /\ Call_tare(T, Ws)

Chan_tare_a(T, Ws) == call.op \in ChanSetupOps /\ Call_tare_a(T, Ws)

Chan_tare_B(T, Ws) == call.op \in ChanSetupOps /\ Call_tare_B(T, Ws)

Chan_get_value_a(T, Ws) == call.op \in ChanSetupOps /\
    \E times \in T : \E p \in {World(Probe)} : \E ins \in InputsFrom(get_value_a(p, times), Ws) :
    \E w0 \in {World(ins)} : \E w \in {get_value_a(w0, times)} :
        Commit(w, "get_value_a", <<times>>) /\ UNCHANGED setting

Chan_get_weight_A(T, Ws) == call.op \in ChanSetupOps /\
    \E times \in T : \E p \in {World(Probe)} : \E ins \in InputsFrom(get_weight_A(p, times), Ws) :
    \E w0 \in {World(ins)} : \E w \in {get_weight_A(w0, times)} :
        Commit(w, "get_weight_A", <<times>>) /\ UNCHANGED setting

Chan_get_value_b(T, Ws) == call.op \in ChanSetupOps /\
    \E times \in T : \E p \in {World(Probe)} : \E ins \in InputsFrom(get_value_b(p, times), Ws) :
    \E w0 \in {World(ins)} : \E w \in {get_value_b(w0, times)} :
        Commit(w, "get_value_b", <<times>>) /\ setting' = 0

Chan_get_weight_B(T, Ws) == call.op \in ChanSetupOps /\
    \E times \in T : \E p \in {World(Probe)} : \E ins \in InputsFrom(get_weight_B(p, times), Ws) :
    \E w0 \in {World(ins)} : \E w \in {get_weight_B(w0, times)} :
        Commit(w, "get_weight_B", <<times>>) /\ setting' = 0

\* sample count of the sampling calls
ChanTimes == {1}

NextChan ==
    \/ Chan_set_reading_format
    \/ Chan_set_offset
    \/ Chan_set_offset_a
    \/ Chan_set_offset_b
    \/ Chan_set_reference_unit
    \/ Chan_set_reference_unit_a
    \/ Chan_set_reference_unit_b
    \/ Chan_tare(ChanTimes, CalWords)
    \/ Chan_tare_a(ChanTimes, CalWords)
    \/ Chan_tare_B(ChanTimes, CalWords)
    \/ Chan_get_value_a(ChanTimes, CalWords)
    \/ Chan_get_weight_A(ChanTimes, CalWords)
    \/ Chan_get_value_b(ChanTimes, CalWords)
    \/ Chan_get_weight_B(ChanTimes, CalWords)

SpecChan == InitValid /\ [][NextChan]_vars

\* the calls of the claim that belong to channel A, those that belong to
\* channel B, and the setters among them
CalAOps == {"set_offset", "set_offset_a", "set_reference_unit", "set_reference_unit_a",
            "tare", "tare_a", "get_value_a", "get_weight_A"}

CalBOps == {"set_offset_b", "set_reference_unit_b", "tare_B", "get_value_b", "get_weight_B"}

CalSetters == {"set_offset", "set_offset_a", "set_offset_b",
               "set_reference_unit", "set_reference_unit_a", "set_reference_unit_b"}

\* C20: a channel-A calibration call (setter, tare, get_value_a,
\* get_weight_A) leaves the offset and reference unit of channel B as they
\* were, a channel-B one leaves those of channel A, and an offset or
\* reference-unit setter changes neither the gain nor the reading format and
\* issues no clock pulse.
C20_CalibrationPerChannel ==
    [][/\ call'.op \in CalAOps =>
            /\ hx'.offset_b = hx.offset_b
            /\ hx'.reference_unit_b = hx.reference_unit_b
       /\ call'.op \in CalBOps =>
            /\ hx'.offset = hx.offset
            /\ hx'.reference_unit = hx.reference_unit
       /\ call'.op \in CalSetters =>
            /\ hx'.gain = hx.gain
            /\ hx'.byte_format = hx.byte_format
            /\ hx'.bit_format = hx.bit_format
            /\ call'.pulses = 0
            /\ call'.acqs = <<>>
            /\ pd_sck' = pd_sck
            /\ chip' = chip]_vars

\* tare_B has stored the offset of channel B with channel A calibrated to
\* offset 3 and reference unit 2, under a gain and a format that are not the
\* defaults
C20_Witness ==
    /\ call.op = "tare_B" /\ ~call.err
    /\ hx.offset = Num(3) /\ hx.reference_unit = 2
    /\ hx.offset_b # Num(1)
    /\ hx.byte_format = LSB
    /\ call.acqs # <<>>

(***************************************************************************)
(* Threads in the channel-B methods, statement by statement:               *)
(*   tb_backup, tb_unit     tare_B: back up reference_unit_b, set it to 1  *)
(*   b_gain, b_set          g = self.get_gain(); self.set_gain(32)         *)
(*   b_loop, b_append       read_median / read_average collecting samples  *)
(*   rl_call, rl_convert    read_long around read_raw_bytes                *)
(*   b_value, tb_offset     the value computed, tare_B storing the offset  *)
(*   b_restore, b_after     self.set_gain(g), and what follows it          *)
(***************************************************************************)
\* the value read_median returns for the samples collected
MedianOf(values) ==
    IF Len(values) = 1 THEN Num(values[1])
    ELSE Then(sort(values), LAMBDA value_list :
         IF Len(values) % 2 = 1 THEN Num(value_list[(Len(value_list) \div 2) + 1])
         ELSE Then(Len(value_list) \div 2, LAMBDA midpoint :
              Then(PySlice(value_list, midpoint - 1, midpoint + 1), LAMBDA middle :
                  Rat(sum(middle), 2))))

\* the value read_average returns for the samples collected (five or more:
\* a fifth trimmed at each end)
AverageOf(values) ==
    IF Len(values) < 5 THEN MedianOf(values)
    ELSE Then(sort(values), LAMBDA sorted :
         Then((Len(sorted) * 2) \div 10, LAMBDA trim_amount :
         Then(PySlice(sorted, trim_amount, 0 - trim_amount), LAMBDA value_list :
             Rat(sum(value_list), Len(value_list)))))

ChanBMethods == {"get_value_b", "get_weight_B", "tare_B"}

\* thread t calls a channel-B method with times >= 1
Begin_channel_b(T) ==
    \E t \in Threads : \E op \in ChanBMethods : \E times \in T :
        /\ thread[t].pc = "idle"
        /\ thread[t].calls < 1
        /\ times >= 1
        /\ thread' = [thread EXCEPT ![t] =
               [IdleThread EXCEPT !.pc = IF op = "tare_B" THEN "tb_backup" ELSE "b_gain",
                                  !.op = op, !.times = times,
                                  !.calls = thread[t].calls]]
        /\ UNCHANGED <<hx, chip, pd_sck, call, setting, emu, line>>

\* backup_reference_unit = self.get_reference_unit_b()
B_backup ==
    \E t \in Threads :
        /\ thread[t].pc = "tb_backup"
        /\ thread' = [thread EXCEPT ![t].unit = get_reference_unit_b(hx), ![t].pc = "tb_unit"]
        /\ UNCHANGED <<hx, chip, pd_sck, call, setting, emu, line>>

\* self.set_reference_unit_b(1)
B_unit ==
    \E t \in Threads :
        /\ thread[t].pc = "tb_unit"
        /\ hx' = [hx EXCEPT !.reference_unit_b = 1]
        /\ Goto(t, "b_gain")
        /\ UNCHANGED <<chip, pd_sck, call, setting, emu, line>>

\* g = self.get_gain()
B_gain ==
    \E t \in Threads :
        /\ thread[t].pc = "b_gain"
        /\ thread' = [thread EXCEPT ![t].g = get_gain(hx), ![t].pc = "b_set"]
        /\ UNCHANGED <<hx, chip, pd_sck, call, setting, emu, line>>

\* self.set_gain(32)
B_set ==
    \E t \in Threads :
        /\ thread[t].pc = "b_set"
        /\ Invoke(t, "sg_assign", 32, "b_loop")
        /\ UNCHANGED <<hx, chip, pd_sck, call, setting, emu, line>>

\* for _ in range(times): ... self.read_long()
B_loop ==
    \E t \in Threads :
        /\ thread[t].pc = "b_loop"
        /\ IF Len(thread[t].values) < thread[t].times
           THEN Invoke(t, "rl_call", 0, "b_append")
           ELSE Goto(t, "b_value")
        /\ UNCHANGED <<hx, chip, pd_sck, call, setting, emu, line>>

\* read_long: data_bytes = self.read_raw_bytes()
Long_call ==
    \E t \in Threads :
        /\ thread[t].pc = "rl_call"
        /\ Invoke(t, "rrb_acquire", 0, "rl_convert")
        /\ UNCHANGED <<hx, chip, pd_sck, call, setting, emu, line>>

\* read_long: the bytes joined and converted, last_val stored
Long_convert ==
    \E t \in Threads :
        /\ thread[t].pc = "rl_convert"
        /\ \E data_bytes \in {thread[t].ret.v} :
           \E high \in {BitOr(ShiftLeft(data_bytes[1], 16), ShiftLeft(data_bytes[2], 8))} :
           \E twos_complement_value \in {BitOr(high, data_bytes[3])} :
           \E signed_int_value \in {convert_from_twos_complement_24_bit(twos_complement_value)} :
               /\ hx' = [hx EXCEPT !.last_val = signed_int_value]
               /\ Return(t, Num(signed_int_value))
        /\ UNCHANGED <<chip, pd_sck, call, setting, emu, line>>

\* value_list.append(...)
B_append ==
    \E t \in Threads :
        /\ thread[t].pc = "b_append"
        /\ thread' = [thread EXCEPT ![t].values = Append(thread[t].values, thread[t].ret.n),
                                    ![t].pc = "b_loop"]
        /\ UNCHANGED <<hx, chip, pd_sck, call, setting, emu, line>>

\* value = self.read_median(times) - self.get_offset_b(), or in tare_B
\* value = self.read_average(times)
B_value ==
    \E t \in Threads :
        /\ thread[t].pc = "b_value"
        /\ thread' = [thread EXCEPT
               ![t].value = IF thread[t].op = "tare_B" THEN AverageOf(thread[t].values)
                            ELSE RatSub(MedianOf(thread[t].values), get_offset_b(hx)),
               ![t].pc = IF thread[t].op = "tare_B" THEN "tb_offset" ELSE "b_restore"]
        /\ UNCHANGED <<hx, chip, pd_sck, call, setting, emu, line>>

\* self.set_offset_b(value)
B_offset ==
    \E t \in Threads :
        /\ thread[t].pc = "tb_offset"
        /\ hx' = [hx EXCEPT !.offset_b = thread[t].value]
        /\ Goto(t, "b_restore")
        /\ UNCHANGED <<chip, pd_sck, call, setting, emu, line>>

\* self.set_gain(g)
B_restore ==
    \E t \in Threads :
        /\ thread[t].pc = "b_restore"
        /\ Invoke(t, "sg_assign", thread[t].g, "b_after")
        /\ UNCHANGED <<hx, chip, pd_sck, call, setting, emu, line>>

\* get_value_b returns value; get_weight_B divides it by reference_unit_b
\* first; tare_B restores reference_unit_b first
B_after ==
    \E t \in Threads :
        /\ thread[t].pc = "b_after"
        /\ hx' = IF thread[t].op = "tare_B" /\ thread[t].unit # 0
                 THEN [hx EXCEPT !.reference_unit_b = thread[t].unit]
                 ELSE hx
        /\ Return(t, IF thread[t].op = "get_weight_B"
                     THEN (IF hx.reference_unit_b = 0 THEN None
                           ELSE RatDiv(thread[t].value, Num(hx.reference_unit_b)))
                     ELSE IF thread[t].op = "tare_B" /\ thread[t].unit = 0 THEN None
                     ELSE thread[t].value)
        /\ UNCHANGED <<chip, pd_sck, call, setting, emu, line>>

(***************************************************************************)
(* Two channel-B calls at once: the driver constructed with gain 128 or    *)
(* 64, reference_unit_b set or left at 1, then every thread calls one      *)
(* channel-B method                                                        *)
(***************************************************************************)
\* the word the chip delivers throughout
PairWords == {5}

InitChanA == Init /\ call.args[1] \in {128, 64} /\ chip.word \in PairWords

\* the reference unit given to channel B before the threads start
PairUnits == {2}

\* set_reference_unit_b before any thread has called
Prior_set_reference_unit_b ==
    /\ call.op = "__init__"
    /\ \A t \in Threads : thread[t].pc = "idle" /\ thread[t].calls = 0
    /\ \E reference_unit \in PairUnits :
       \E w0 \in {World(<<>>)} : \E w \in {set_reference_unit_b(w0, reference_unit)} :
           /\ Commit(w, "set_reference_unit_b", <<reference_unit>>)
           /\ UNCHANGED setting

\* sample count of the concurrent channel-B calls
PairTimes == {1}

NextPair ==
    \/ Prior_set_reference_unit_b
    \/ Begin_channel_b(PairTimes)
    \/ B_backup
    \/ B_unit
    \/ B_gain
    \/ B_set
    \/ B_loop
    \/ Long_call
    \/ Long_convert
    \/ B_append
    \/ B_value
    \/ B_offset
    \/ B_restore
    \/ B_after
    \/ Gain_assign
    \/ Gain_low
    \/ Read_acquire
    \/ Read_poll_steady
    \/ Bit_rise
    \/ Bit_fall
    \/ Bit_sample
    \/ Read_release

SpecPair == InitChanA /\ [][NextPair]_vars

\* reference_unit_b as it was when the threads started
UnitBefore == IF call.op = "set_reference_unit_b" /\ ~call.err THEN call.args[1] ELSE 1

\* C21: once every thread has returned from its channel-B call (get_value_b,
\* get_weight_B or tare_B, times >= 1), started under gain 128 or 64,
\* get_gain() is the gain the driver had before the calls and
\* reference_unit_b is what it was before them, whatever the interleaving.
C21_ChannelBRestoresConcurrently ==
    AllReturned =>
        /\ get_gain(hx) = setting
        /\ hx.reference_unit_b = UnitBefore

(***************************************************************************)
(* Lock discipline and termination: two threads make one call each out of  *)
(* read_long, set_gain, get_value_b, power_down, power_up and reset. The   *)
(* bits of an acquisition are clocked out in one step here (Read_bits):    *)
(* nothing in that loop waits, branches on shared data or touches the lock *)
(***************************************************************************)
\* first_byte .. third_byte = self.read_next_byte() and the pulses that
\* follow, by the thread that found the conversion ready
Read_bits ==
    \E t \in Threads :
        /\ thread[t].pc = "bit_rise"
        /\ thread[t].i = 0
        /\ \E w0 \in {World(<<>>)} :
           \E w1 \in {read_next_byte(w0)} :
           \E w2 \in {read_next_byte(w1)} :
           \E w3 \in {read_next_byte(w2)} :
           \E w4 \in {extra_pulses(w3, w3.hx.gain)} :
               /\ chip' = w4.chip
               /\ pd_sck' = w4.pd_sck
               /\ line' = [pulses |-> line.pulses + w4.pulses, by |-> t, kind |-> "sample",
                           held |-> hx.read_lock = t,
                           during |-> {u \in Threads \ {t} : Inside(u)}]
               /\ thread' = [thread EXCEPT ![t].pc = "rrb_release",
                                           ![t].i = w4.pulses,
                                           ![t].k = w3.hx.gain,
                                           ![t].bytes = <<w1.ret, w2.ret, w3.ret>>]
        /\ UNCHANGED <<hx, call, setting, emu>>

\* the calls a thread may make: the method, its argument, its first
\* statement and, for reset, the statement power_down returns to
LiveCalls ==
    {[op |-> "read_long", arg |-> 0, pc |-> "rl_call", stack |-> <<>>],
     [op |-> "set_gain", arg |-> 64, pc |-> "sg_assign", stack |-> <<>>],
     [op |-> "get_value_b", arg |-> 1, pc |-> "b_gain", stack |-> <<>>],
     [op |-> "power_down", arg |-> 0, pc |-> "pd_acquire", stack |-> <<>>],
     [op |-> "power_up", arg |-> 0, pc |-> "pu_acquire", stack |-> <<>>],
     [op |-> "reset", arg |-> 0, pc |-> "pd_acquire", stack |-> <<"pu_acquire">>]}

\* the threads that call: two, so that the behaviours can be searched for
\* cycles
LiveThreads == {1, 2}

\* thread t enters one of the methods
Begin_call ==
    \E t \in LiveThreads : \E m \in LiveCalls :
        /\ thread[t].pc = "idle"
        /\ thread[t].calls < 1
        /\ thread' = [thread EXCEPT ![t] =
               [IdleThread EXCEPT !.pc = m.pc, !.op = m.op, !.stack = m.stack,
                                  !.k = IF m.op = "set_gain" THEN m.arg ELSE 0,
                                  !.times = IF m.op = "get_value_b" THEN m.arg ELSE 0,
                                  !.calls = thread[t].calls]]
        /\ UNCHANGED <<hx, chip, pd_sck, call, setting, emu, line>>

NextLive ==
    \/ Begin_call
    \/ Read_acquire
    \/ Read_poll_steady
    \/ Read_bits
    \/ Read_release
    \/ Gain_assign
    \/ Gain_low
    \/ Down_acquire
    \/ Down_low
    \/ Down_high
    \/ Down_sleep
    \/ Down_release
    \/ Up_acquire
    \/ Up_low
    \/ Up_release
    \/ Up_check
    \/ B_gain
    \/ B_set
    \/ B_loop
    \/ Long_call
    \/ Long_convert
    \/ B_append
    \/ B_value
    \/ B_restore
    \/ B_after

\* the statement every thread is at
pcs == [t \in Threads |-> thread[t].pc]

\* fair scheduling: while some thread can move on to its next statement,
\* some thread does
SpecLive == InitChanA /\ [][NextLive]_vars /\ WF_pcs(NextLive)

\* the statements that call self.read_lock.acquire()
AcquirePcs == {"rrb_acquire", "pd_acquire", "pu_acquire"}

\* the data line reads low within finitely many polls whenever it is
\* awaited: no thread stays in the polling loop for ever
PollsEnd == \A t \in LiveThreads : []<>(thread[t].pc # "rrb_poll")

\* every call returns: no thread stays inside a call for ever
CallsReturn == \A t \in LiveThreads : []<>(thread[t].pc = "idle")

\* C22: with threads calling read_long, set_gain, get_value_b,
\* power_down, power_up or reset under fair scheduling, no thread is about
\* to acquire read_lock while it holds it, read_lock is free whenever no
\* thread is inside a call, and, provided every wait for the data line
\* ends, every call that was entered returns.
C22_LockDisciplineAndTermination ==
    /\ [](\A t \in Threads : thread[t].pc \in AcquirePcs => hx.read_lock # t)
    /\ []((\A t \in Threads : thread[t].pc = "idle") => hx.read_lock = 0)
    /\ PollsEnd => CallsReturn

\* every thread has returned, one of them from set_gain(64) and the last
\* from power_down, which waited for the lock or found it free
C22_Witness ==
    /\ \A t \in LiveThreads : thread[t].pc = "idle" /\ thread[t].calls = 1
    /\ hx.read_lock = 0
    /\ hx.gain = 3
    /\ ~chip.on

====
